---- MODULE Spec2Model ----
(***************************************************************************)
(* Model of the SpotiFLAC application core: App.DownloadTrack with the     *)
(* download queue it drives, and App.CheckFilesExistence.                  *)
(*                                                                         *)
(* The queue tracker (backend.AddToQueue, StartDownloadItem, ...), the     *)
(* provider downloaders and backend.BuildExpectedFilename live in the      *)
(* backend package, whose sources are not part of the tree; they are       *)
(* modelled from the specification (sections 4.2, 4.3 and 6).              *)
(***************************************************************************)
EXTENDS Integers, Sequences, FiniteSets, TLC

VARIABLES
    queue,          \* backend download queue: item id -> DownloadItem
    isDownloading,  \* backend "is any download active" flag
    fs,             \* filesystem: path -> size in bytes, NoFile when absent
    clock,          \* time.Now().UnixNano()
    call,           \* the DownloadTrack activation of each slot
    resp,           \* the (DownloadResponse, error) last returned by each slot
    started,        \* number of DownloadTrack calls begun so far
    cfe,            \* the CheckFilesExistence activation
    tasks,          \* the goroutines a completed download has started
    client,         \* the fields of the one SpotifyAuthClient
    tokenFile,      \* spotify_tokens.json: the AuthTokens saved, NoTokens when absent
    login,          \* the login the frontend runs: its position and what it holds
    spotify,            \* the calls of the Spotify Web API in progress and made
    library         \* the GetAllLikedSongs / GetAllUserPlaylists activation

\* the variables of the Spotify account part (spotify_auth.go)
authVars == <<client, tokenFile, login, spotify, library>>

\* the variables of the download part (app.go)
downloadVars == <<queue, isDownloading, fs, clock, call, resp, started, cfe, tasks>>

vars == <<queue, isDownloading, fs, clock, call, resp, started, cfe, tasks,
          client, tokenFile, login, spotify, library>>

-----------------------------------------------------------------------------
(* Bounds *)

MaxCalls == 1
MaxClock == 1
MaxRepeats == 2
MaxTracks == 3
MaxConcurrent == 2
MaxVerifiers == 2

\* the pages a library holds at most
MaxPages == 3

-----------------------------------------------------------------------------
(* Strings *)

HasPrefix(s, p) == Len(s) >= Len(p) /\ SubSeq(s, 1, Len(p)) = p

TrimPrefix(s, p) == IF HasPrefix(s, p) THEN SubSeq(s, Len(p) + 1, Len(s)) ELSE s

HasSuffix(s, x) == Len(s) >= Len(x) /\ SubSeq(s, Len(s) - Len(x) + 1, Len(s)) = x

TrimSuffix(s, x) == IF HasSuffix(s, x) THEN SubSeq(s, 1, Len(s) - Len(x)) ELSE s

Upper == {"A", "B", "C", "D", "E", "F", "G", "H", "I", "J", "K", "L", "M",
          "N", "O", "P", "Q", "R", "S", "T", "U", "V", "W", "X", "Y", "Z"}

Digit == {"0", "1", "2", "3", "4", "5", "6", "7", "8", "9"}

CharAt(s, i) == SubSeq(s, i, i)

\* isrcRegex = ^[A-Z]{2}[A-Z0-9]{3}\d{2}\d{5}$
isValidISRC(isrc) ==
    /\ Len(isrc) = 12
    /\ \A i \in 1..2 : CharAt(isrc, i) \in Upper
    /\ \A i \in 3..5 : CharAt(isrc, i) \in Upper \cup Digit
    /\ \A i \in 6..12 : CharAt(isrc, i) \in Digit

\* filepath.Join of a clean directory and a file name
Join(dir, name) == IF dir = "." THEN name ELSE dir \o "/" \o name

-----------------------------------------------------------------------------
(* Filesystem *)

NoFile == -1

\* the existence threshold: fileInfo.Size() > 100*1024
MinFileSize == 100 * 1024

PartialSize == 1024 * 1024
FullSize == 5 * 1024 * 1024

OutDir == "/out"

Paths == {"/out/T - A.flac", "/out/T - A.mp3", "/out/T - A.m4a"}

\* where a track "T" without artist name would be looked for
NamelessPath == "/out/T - .flac"

\* where the track is looked for under its playlist position 3 and under its
\* album track number 7
NumberedPaths == {"/out/03. T - A.flac", "/out/07. T - A.flac"}

\* the paths a provider downloader writes to (lossless or lossy container)
ProviderPaths == {"/out/T - A.flac", "/out/T - A.m4a"}

\* os.Stat(path): err == nil exactly when the file is there
StatOk(path) == path \in DOMAIN fs /\ fs[path] # NoFile

-----------------------------------------------------------------------------
(* Queue tracker (backend package, modelled from spec section 4.2) *)

Terminal == {"completed", "skipped", "failed", "cancelled"}

Item(st, path, msg) == [status |-> st, filePath |-> path, errorMessage |-> msg]

\* AddToQueue: registers a new item as Queued; an id is never registered twice
AddToQueue(q, id) ==
    IF id \in DOMAIN q THEN q
    ELSE [x \in DOMAIN q \cup {id} |-> IF x = id THEN Item("queued", "", "") ELSE q[x]]

\* Queued -> Downloading
StartDownloadItem(q, id) ==
    IF id \in DOMAIN q /\ q[id].status = "queued"
    THEN [q EXCEPT ![id].status = "downloading"]
    ELSE q

\* the transition made whatever state the item is in
Finish_Unguarded(q, id, st, path, msg) ==
    IF id \in DOMAIN q THEN [q EXCEPT ![id] = Item(st, path, msg)] ELSE q

\* a transition into a terminal state: only from Queued or Downloading
Finish(q, id, st, path, msg) ==
    IF id \in DOMAIN q /\ q[id].status \notin Terminal
    THEN [q EXCEPT ![id] = Item(st, path, msg)]
    ELSE q

CompleteDownloadItem(q, id, path) == Finish(q, id, "completed", path, "")

SkipDownloadItem(q, id, path) == Finish(q, id, "skipped", path, "")

FailDownloadItem(q, id, msg) == Finish(q, id, "failed", "", msg)

\* only items still Queued are cancelled
CancelAllQueued(q) ==
    [x \in DOMAIN q |-> IF q[x].status = "queued" THEN Item("cancelled", "", "") ELSE q[x]]

\* ClearCompleted keeps Queued and Downloading entries
ClearDownloadQueue(q) ==
    [x \in {y \in DOMAIN q : q[y].status \in {"queued", "downloading"}} |-> q[x]]

EmptyQueue == [x \in {} |-> Item("queued", "", "")]

-----------------------------------------------------------------------------
(* Requests *)

DigitText == <<"0", "1", "2", "3", "4", "5", "6", "7", "8", "9">>

\* fmt.Sprintf("%02d", n) for a number below 100
TwoDigits(n) == DigitText[(n \div 10) + 1] \o DigitText[(n % 10) + 1]

\* backend.BuildExpectedFilename for the "title-artist" and "artist-title"
\* formats: the name, behind the number it is given when the number is asked
\* for and positive
BuildExpectedFilename(track, artist, format, includeTrackNumber, position) ==
    LET name == IF format = "title-artist" THEN track \o " - " \o artist
                ELSE artist \o " - " \o track
    IN (IF includeTrackNumber /\ position > 0 THEN TwoDigits(position) \o ". " ELSE "")
       \o name \o ".flac"


ValidISRC == "USRC17607839"

Services == {"", "amazon", "tidal", "qobuz", "deezer"}

\* the fields of DownloadRequest that DownloadTrack reads
Request(isrc, service, track, artist, sid, surl, api, lyrics, item, meta) ==
    [ISRC |-> isrc, Service |-> service, TrackName |-> track, ArtistName |-> artist,
     AlbumName |-> "", AlbumArtist |-> "", OutputDir |-> OutDir, AudioFormat |-> "",
     FilenameFormat |-> "", TrackNumber |-> FALSE, Position |-> 0,
     UseAlbumTrackNumber |-> FALSE, SpotifyDiscNumber |-> 0,
     SpotifyID |-> sid, ServiceURL |-> surl, ApiURL |-> api, EmbedLyrics |-> lyrics,
     ItemID |-> item,
     Copyright |-> IF meta THEN "(c) caller" ELSE "",
     Publisher |-> IF meta THEN "caller label" ELSE "",
     SpotifyTotalDiscs |-> IF meta THEN 1 ELSE 0,
     SpotifyTotalTracks |-> IF meta THEN 9 ELSE 0,
     SpotifyTrackNumber |-> IF meta THEN 3 ELSE 0,
     ReleaseDate |-> IF meta THEN "1999-01-01" ELSE ""]

\* track and artist names: both given, or the artist missing
Names == {<<"T", "A">>, <<"T", "">>}

\* the requests a caller may send: a field varies where DownloadTrack reads it
\* (ISRC under qobuz, ServiceURL under amazon and tidal, ApiURL under tidal,
\* the descriptive fields when there is a Spotify ID); a request without a
\* service leaves ServiceURL and ApiURL empty too
RequestsOf(service, items, lyrics) ==
    {Request(isrc, service, n[1], n[2], sid, surl, api, l, item, meta) :
        isrc \in (IF service = "qobuz" THEN {"", ValidISRC, "usrc17607839"} ELSE {""}),
        n \in Names,
        sid \in {"", "sp1"},
        surl \in (IF service \in {"amazon", "tidal"} THEN {"", "https://svc/t/1"} ELSE {""}),
        api \in (IF service = "tidal" THEN {"auto", "https://api"} ELSE {""}),
        l \in lyrics,
        item \in items,
        meta \in BOOLEAN}
    \ {r \in {Request(isrc, service, n[1], n[2], "", surl, api, l, item, TRUE) :
                isrc \in {"", ValidISRC, "usrc17607839"}, n \in Names,
                surl \in {"", "https://svc/t/1"}, api \in {"", "auto", "https://api"},
                l \in lyrics, item \in items} : TRUE}

Requests(items) == UNION {RequestsOf(s, items, {FALSE}) : s \in Services}

\* the requests of the queue scenario: a tidal download of a track whose
\* descriptive fields the caller knows, or a qobuz request without any id
QueueRequests(items) ==
    {r \in RequestsOf("tidal", items, {FALSE}) :
        /\ r.ServiceURL = "" /\ r.ApiURL = "auto"
        /\ r.SpotifyID # "" => r.Copyright # ""}
    \cup {r \in RequestsOf("qobuz", items, {FALSE}) : r.ISRC = "" /\ r.SpotifyID = ""}

\* the requests of the backfill scenario: a tidal download by Spotify ID, the
\* caller knowing any of the six descriptive fields
BackfillRequests ==
    {[Request("", "tidal", "T", "A", "sp1", "", "auto", FALSE, "", FALSE) EXCEPT
        !.Copyright = IF 1 \in given THEN "(c) caller" ELSE "",
        !.Publisher = IF 2 \in given THEN "caller label" ELSE "",
        !.SpotifyTotalDiscs = IF 3 \in given THEN 1 ELSE 0,
        !.SpotifyTotalTracks = IF 4 \in given THEN 9 ELSE 0,
        !.SpotifyTrackNumber = IF 5 \in given THEN 3 ELSE 0,
        !.ReleaseDate = IF 6 \in given THEN "1999-01-01" ELSE ""] :
     given \in SUBSET (1..6)}

\* the requests of the lyrics scenario: tidal downloads with and without
\* EmbedLyrics, by Spotify ID (the descriptive fields known) or by URL
LyricsRequests ==
    {r \in RequestsOf("tidal", {""}, BOOLEAN) :
        /\ r.ApiURL = "auto"
        /\ r.SpotifyID # "" => r.Copyright # ""}

\* the requests of the queue scenario: tidal downloads by Spotify ID
TidalRequests(items) == {r \in QueueRequests(items) : r.SpotifyID # ""}

NoRequest == Request("", "", "", "", "", "", "", FALSE, "", FALSE)

-----------------------------------------------------------------------------
(* DownloadResponse and the Go error returned with it *)

Response(success, message, file, error, exists, item, goerr) ==
    [Success |-> success, Message |-> message, File |-> file, Error |-> error,
     AlreadyExists |-> exists, ItemID |-> item, err |-> goerr]

Nil == "<nil>"

NoFiles == [p \in Paths |-> NoFile]

\* what a slot holds once its call has returned: the response, the request as
\* the caller sent it, the files as they were when the call began, the item id
\* the call worked on, what its downloader returned and wrote, and the events
\* the call issued, in order
Returned(response, a, log) ==
    [done |-> TRUE, r |-> response, req |-> a.orig, fs0 |-> a.fs0, itemID |-> a.itemID,
     filename |-> a.filename, wrote |-> a.wrote, log |-> log,
     final |-> a.req, fetched |-> a.fetched]

\* trackResp.Track before anything is unmarshalled into it
NoTrackData ==
    [Copyright |-> "", Publisher |-> "", TotalDiscs |-> 0, TotalTracks |-> 0,
     TrackNumber |-> 0, ReleaseDate |-> ""]

\* what the metadata request gave: err == nil and the track data, or nothing
Fetched(ok, t) == [ok |-> ok, track |-> t]

\* a DownloadTrack activation: program position and locals
Activation(pc, orig, files, req, item, filename, goerr, wrote, pending, log) ==
    [pc |-> pc, orig |-> orig, fs0 |-> files, req |-> req, itemID |-> item,
     filename |-> filename, err |-> goerr, wrote |-> wrote, pending |-> pending,
     log |-> log, fetched |-> Fetched(FALSE, NoTrackData)]

NoResult == Response(FALSE, "", "", "", FALSE, "", Nil)

Idle == Activation("idle", NoRequest, NoFiles, NoRequest, "", "", Nil, "", NoResult, <<>>)

NoResponse == [Returned(NoResult, Idle, <<>>) EXCEPT !.done = FALSE]

Slots == {1}

-----------------------------------------------------------------------------
(* DownloadTrack: decisions *)

\* the Spotify ID tested for presence instead of absence
QobuzMissingID_Inverted(req) == req.Service = "qobuz" /\ req.ISRC = "" /\ req.SpotifyID # ""

\* line 189: qobuz needs an ISRC or a Spotify ID
QobuzMissingID(req) == req.Service = "qobuz" /\ req.ISRC = "" /\ req.SpotifyID = ""

\* lines 196-216: defaults
Normalize(req) ==
    [req EXCEPT !.Service = IF @ = "" THEN "tidal" ELSE @,
                !.OutputDir = IF @ = "" THEN "." ELSE @,   \* NormalizePath keeps a clean path
                !.AudioFormat = IF @ = "" THEN "LOSSLESS" ELSE @,
                !.FilenameFormat = IF @ = "" THEN "title-artist" ELSE @]

\* lines 221-225: fmt.Sprintf("%s-%d", ...) / fmt.Sprintf("%s-%s-%d", ...)
SynthItemID(req, now) ==
    IF req.SpotifyID # ""
    THEN req.SpotifyID \o "-" \o ToString(now)
    ELSE req.TrackName \o "-" \o req.ArtistName \o "-" \o ToString(now)

\* line 239: some descriptive field is missing and there is a Spotify ID to ask with
NeedsBackfill(req) ==
    /\ req.SpotifyID # ""
    /\ \/ req.Copyright = "" \/ req.Publisher = "" \/ req.SpotifyTotalDiscs = 0
       \/ req.ReleaseDate = "" \/ req.SpotifyTotalTracks = 0 \/ req.SpotifyTrackNumber = 0

\* what the Spotify data source may answer for a track
TrackData ==
    {[Copyright |-> "(c) spotify", Publisher |-> "spotify label", TotalDiscs |-> 2,
      TotalTracks |-> 12, TrackNumber |-> 5, ReleaseDate |-> "2001-02-03"],
     [Copyright |-> "", Publisher |-> "", TotalDiscs |-> 0,
      TotalTracks |-> 0, TrackNumber |-> 0, ReleaseDate |-> ""]}

\* the answers of the backfill scenario: also one with the texts only and
\* one with the numbers only
TrackAnswers ==
    TrackData
    \cup {[Copyright |-> "(c) spotify", Publisher |-> "spotify label", TotalDiscs |-> 0,
            TotalTracks |-> 0, TrackNumber |-> 0, ReleaseDate |-> "2001-02-03"],
           [Copyright |-> "", Publisher |-> "", TotalDiscs |-> 2,
            TotalTracks |-> 12, TrackNumber |-> 5, ReleaseDate |-> ""]}

\* every fetched value is taken, whatever the caller gave
Backfill_Overrides(req, t) ==
    [req EXCEPT
        !.Copyright = IF t.Copyright # "" THEN t.Copyright ELSE @,
        !.Publisher = IF t.Publisher # "" THEN t.Publisher ELSE @,
        !.SpotifyTotalDiscs = IF t.TotalDiscs > 0 THEN t.TotalDiscs ELSE @,
        !.SpotifyTotalTracks = IF t.TotalTracks > 0 THEN t.TotalTracks ELSE @,
        !.SpotifyTrackNumber = IF t.TrackNumber > 0 THEN t.TrackNumber ELSE @,
        !.ReleaseDate = IF t.ReleaseDate # "" THEN t.ReleaseDate ELSE @]

\* lines 260-277: fill only what the caller left out
Backfill(req, t) ==
    [req EXCEPT
        !.Copyright = IF @ = "" /\ t.Copyright # "" THEN t.Copyright ELSE @,
        !.Publisher = IF @ = "" /\ t.Publisher # "" THEN t.Publisher ELSE @,
        !.SpotifyTotalDiscs = IF @ = 0 /\ t.TotalDiscs > 0 THEN t.TotalDiscs ELSE @,
        !.SpotifyTotalTracks = IF @ = 0 /\ t.TotalTracks > 0 THEN t.TotalTracks ELSE @,
        !.SpotifyTrackNumber = IF @ = 0 /\ t.TrackNumber > 0 THEN t.TrackNumber ELSE @,
        !.ReleaseDate = IF @ = "" /\ t.ReleaseDate # "" THEN t.ReleaseDate ELSE @]

\* line 283: the precheck runs only for a named track
HasNames(req) == req.TrackName # "" /\ req.ArtistName # ""

\* line 284: the number DownloadTrack hands to the filename builder
PrecheckTrackNumber(req) == req.Position

\* lines 284-285
ExpectedPath(req) ==
    Join(req.OutputDir,
         BuildExpectedFilename(req.TrackName, req.ArtistName, req.FilenameFormat,
                               req.TrackNumber, PrecheckTrackNumber(req)))

\* the threshold taken for 100 MiB
PrecheckHit_MiB(size) == size # NoFile /\ size > 100 * 1024 * 1024

\* line 287: os.Stat succeeded and the file is larger than 100 KiB
PrecheckHit(size) == size # NoFile /\ size > MinFileSize

\* lines 300-394: the provider operation the switch selects; "" where the
\* branch returns before calling a downloader
ProviderOp(req) ==
    CASE req.Service = "amazon" ->
            IF req.ServiceURL # "" THEN "amazon.DownloadByURL"
            ELSE IF req.SpotifyID = "" THEN ""
            ELSE "amazon.DownloadBySpotifyID"
      [] req.Service = "tidal" ->
            IF req.ApiURL = "" \/ req.ApiURL = "auto"
            THEN IF req.ServiceURL # "" THEN "tidal.DownloadByURLWithFallback"
                 ELSE IF req.SpotifyID = "" THEN ""
                 ELSE "tidal.Download"
            ELSE IF req.ServiceURL # "" THEN "tidal.DownloadByURL"
                 ELSE IF req.SpotifyID = "" THEN ""
                 ELSE "tidal.Download"
      [] req.Service = "qobuz" -> "qobuz.DownloadByISRC"
      [] OTHER -> ""

\* lines 308-311, 324-327, 339-342, 390-393: the error of a branch that
\* returns before calling a downloader
DispatchError(req) ==
    CASE req.Service = "amazon" -> "Spotify ID is required for Amazon Music"
      [] req.Service = "tidal" -> "Spotify ID is required for Tidal"
      [] OTHER -> "Unknown service: " \o req.Service

\* lines 357-361: the request's ISRC, dropped unless it is a valid code
DeezerISRC(req) ==
    IF Len(req.ISRC) # 12 \/ ~isValidISRC(req.ISRC) THEN "" ELSE req.ISRC

\* the EXISTS: test without its negation
IsPartialOutput_NotNegated(filename) == filename # "" /\ HasPrefix(filename, "EXISTS:")

\* line 399: the strategy left an output file of its own behind
IsPartialOutput(filename) == filename # "" /\ ~HasPrefix(filename, "EXISTS:")

\* the alreadyExists test left out
WantsLyrics_AlsoExisting(req, filename, alreadyExists) ==
    req.SpotifyID # "" /\ req.EmbedLyrics /\ HasSuffix(filename, ".flac")

\* the test of the file extension left out
WantsLyrics_AnyContainer(req, filename, alreadyExists) ==
    ~alreadyExists /\ req.SpotifyID # "" /\ req.EmbedLyrics

\* line 422: lyrics are embedded into fresh lossless files only
WantsLyrics(req, filename, alreadyExists) ==
    ~alreadyExists /\ req.SpotifyID # "" /\ req.EmbedLyrics /\ HasSuffix(filename, ".flac")

-----------------------------------------------------------------------------
(* Provider downloaders (backend package, modelled from spec section 6):   *)
(* DownloadByX(...) -> (path, error); path may carry the "EXISTS:" prefix  *)

ProviderErrors == {"timeout"}

\* an outcome: the returned filename and error, and the file the call wrote
Outcome(filename, goerr, wrote, size) ==
    [filename |-> filename, err |-> goerr, wrote |-> wrote, size |-> size]

\* success with a fresh file; success with a file found in place; failure
\* before anything was written; failure with a truncated file left behind,
\* whose path is returned or not
ProviderOutcomes(files, paths) ==
    {Outcome(p, Nil, p, FullSize) : p \in paths}
    \cup {Outcome("EXISTS:" \o p, Nil, "", 0) : p \in {x \in paths : files[x] # NoFile}}
    \cup {Outcome("", e, "", 0) : e \in ProviderErrors}
    \cup {Outcome("", e, "/out/T - A.flac", PartialSize) : e \in ProviderErrors}
    \cup {Outcome("/out/T - A.flac", e, "/out/T - A.flac", PartialSize) : e \in ProviderErrors}

WriteFile(files, path, size) ==
    IF path = "" THEN files ELSE [files EXCEPT ![path] = size]

-----------------------------------------------------------------------------
(* DownloadTrack: steps.  Each step is one stretch of the function between *)
(* two operations on shared state (queue, flag, filesystem, network).      *)

Logged(c, events) == call[c].log \o events

\* the activation of slot c moves on
Step(c, pc, events) ==
    call' = [call EXCEPT ![c].pc = pc, ![c].log = Logged(c, events)]

\* a return statement reached after line 232: the deferred calls still run
Return(c, response, events) ==
    call' = [call EXCEPT ![c].pc = "return", ![c].pending = response,
                         ![c].log = Logged(c, events)]

\* lines 187-194: the qobuz precondition fails, nothing else has happened
DT_Reject(c, requests, limit) ==
    /\ call[c].pc = "idle"
    /\ started < limit
    /\ \E r \in requests :
        /\ QobuzMissingID(r)
        /\ resp' = [resp EXCEPT ![c] = Returned(
                Response(FALSE, "", "", "Spotify ID is required for Qobuz", FALSE, "",
                         "spotify ID is required for Qobuz"),
                [Idle EXCEPT !.orig = r, !.fs0 = fs], <<>>)]
    /\ started' = started + 1
    /\ UNCHANGED <<queue, isDownloading, fs, clock, call, cfe, tasks, authVars>>

\* lines 187-216: the request passes the precondition and gets its defaults
DT_Begin(c, requests, limit) ==
    /\ call[c].pc = "idle"
    /\ started < limit
    /\ \E r \in requests :
        /\ ~QobuzMissingID(r)
        /\ call' = [call EXCEPT ![c] =
                Activation("register", r, fs, Normalize(r), "", "", Nil, "", NoResult, <<>>)]
    /\ resp' = [resp EXCEPT ![c] = NoResponse]
    /\ started' = started + 1
    /\ UNCHANGED <<queue, isDownloading, fs, clock, cfe, tasks, authVars>>

\* the clock read once for the item registered and once more for the id kept
DT_Register_TwoClockReads(c, ticks) ==
    /\ call[c].pc = "register"
    /\ LET req == call[c].req
           id == IF req.ItemID = "" THEN SynthItemID(req, clock) ELSE req.ItemID
           kept == IF req.ItemID = "" THEN SynthItemID(req, clock + 1) ELSE req.ItemID
       IN /\ queue' = IF req.ItemID = "" THEN AddToQueue(queue, id) ELSE queue
          /\ call' = [call EXCEPT ![c].pc = "setdownloading", ![c].itemID = kept,
                                  ![c].log = Logged(c, IF req.ItemID = ""
                                                       THEN <<"AddToQueue">> ELSE <<>>)]
          /\ \E d \in ticks : clock' = IF req.ItemID = "" THEN clock + d ELSE clock
    /\ UNCHANGED <<isDownloading, fs, resp, started, cfe, tasks, authVars>>

\* lines 218-228: reuse the caller's item id, or synthesize one and register it.
\* ticks: by how much the clock may have moved on when it is read the next time
DT_Register(c, ticks) ==
    /\ call[c].pc = "register"
    /\ LET req == call[c].req
           id == IF req.ItemID = "" THEN SynthItemID(req, clock) ELSE req.ItemID
       IN /\ queue' = IF req.ItemID = "" THEN AddToQueue(queue, id) ELSE queue
          /\ call' = [call EXCEPT ![c].pc = "setdownloading", ![c].itemID = id,
                                  ![c].log = Logged(c, IF req.ItemID = ""
                                                       THEN <<"AddToQueue">> ELSE <<>>)]
          /\ \E d \in ticks : clock' = IF req.ItemID = "" THEN clock + d ELSE clock
    /\ UNCHANGED <<isDownloading, fs, resp, started, cfe, tasks, authVars>>

\* line 230
DT_SetDownloading(c) ==
    /\ call[c].pc = "setdownloading"
    /\ isDownloading' = TRUE
    /\ Step(c, "start", <<"SetDownloading(true)">>)
    /\ UNCHANGED <<queue, fs, clock, resp, started, cfe, tasks, authVars>>

\* line 231
DT_Start(c) ==
    /\ call[c].pc = "start"
    /\ queue' = StartDownloadItem(queue, call[c].itemID)
    /\ Step(c, "backfill", <<"StartDownloadItem">>)
    /\ UNCHANGED <<isDownloading, fs, clock, resp, started, cfe, tasks, authVars>>

\* lines 234-281 when line 239 is false: no metadata request
DT_NoBackfill(c) ==
    /\ call[c].pc = "backfill"
    /\ ~NeedsBackfill(call[c].req)
    /\ Step(c, "precheck", <<>>)
    /\ UNCHANGED <<queue, isDownloading, fs, clock, resp, started, cfe, tasks, authVars>>

\* lines 239-281: the metadata request fails or times out (line 245 false)
DT_BackfillFailed(c) ==
    /\ call[c].pc = "backfill"
    /\ NeedsBackfill(call[c].req)
    /\ Step(c, "precheck", <<"net:GetFilteredSpotifyData">>)
    /\ UNCHANGED <<queue, isDownloading, fs, clock, resp, started, cfe, tasks, authVars>>

\* lines 239-281: the metadata request answers
DT_Backfill(c, answers) ==
    /\ call[c].pc = "backfill"
    /\ NeedsBackfill(call[c].req)
    /\ \E t \in answers :
        call' = [call EXCEPT ![c].pc = "precheck", ![c].req = Backfill(@, t),
                             ![c].fetched = Fetched(TRUE, t),
                             ![c].log = Logged(c, <<"net:GetFilteredSpotifyData">>)]
    /\ UNCHANGED <<queue, isDownloading, fs, clock, resp, started, cfe, tasks, authVars>>

\* line 283 false: a track without name or artist is not looked for
DT_NoPrecheck(c) ==
    /\ call[c].pc = "precheck"
    /\ ~HasNames(call[c].req)
    /\ Step(c, "dispatch", <<>>)
    /\ UNCHANGED <<queue, isDownloading, fs, clock, resp, started, cfe, tasks, authVars>>

\* lines 283-298, line 287 false: no file, or one that is too small
DT_PrecheckMiss(c) ==
    /\ call[c].pc = "precheck"
    /\ HasNames(call[c].req)
    /\ ~PrecheckHit(fs[ExpectedPath(call[c].req)])
    /\ Step(c, "dispatch", <<"fs:Stat">>)
    /\ UNCHANGED <<queue, isDownloading, fs, clock, resp, started, cfe, tasks, authVars>>

\* the skip without the return statement of line 290: the call goes on to
\* the downloader
DT_PrecheckHit_NoReturn(c) ==
    /\ call[c].pc = "precheck"
    /\ HasNames(call[c].req)
    /\ LET path == ExpectedPath(call[c].req)
       IN /\ PrecheckHit(fs[path])
          /\ queue' = SkipDownloadItem(queue, call[c].itemID, path)
          /\ Step(c, "dispatch", <<"fs:Stat", "SkipDownloadItem">>)
    /\ UNCHANGED <<isDownloading, fs, clock, resp, started, cfe, tasks, authVars>>

\* lines 283-297: the file is there; skip the item and return its path
DT_PrecheckHit(c) ==
    /\ call[c].pc = "precheck"
    /\ HasNames(call[c].req)
    /\ LET path == ExpectedPath(call[c].req)
       IN /\ PrecheckHit(fs[path])
          /\ queue' = SkipDownloadItem(queue, call[c].itemID, path)
          /\ Return(c, Response(TRUE, "File already exists", path, "", TRUE,
                                call[c].itemID, Nil),
                    <<"fs:Stat", "SkipDownloadItem">>)
    /\ UNCHANGED <<isDownloading, fs, clock, resp, started, cfe, tasks, authVars>>

\* lines 308-311, 324-327, 339-342, 390-393: the Go error of such a branch
DispatchGoError(req) ==
    CASE req.Service = "amazon" -> "spotify ID is required for Amazon Music"
      [] req.Service = "tidal" -> "spotify ID is required for Tidal"
      [] OTHER -> "unknown service: " \o req.Service

\* lines 300-347, 389-394: the switch returns without calling a downloader
DT_DispatchError(c) ==
    /\ call[c].pc = "dispatch"
    /\ call[c].req.Service # "qobuz"
    /\ ProviderOp(call[c].req) = ""
    /\ Return(c, Response(FALSE, "", "", DispatchError(call[c].req), FALSE, "",
                          DispatchGoError(call[c].req)), <<>>)
    /\ UNCHANGED <<queue, isDownloading, fs, clock, resp, started, cfe, tasks, authVars>>

\* a failed download is tried again with the amazon downloader
Invoke_Fallback(c, op, events, paths) ==
    \E o \in ProviderOutcomes(fs, paths) :
        /\ fs' = WriteFile(fs, o.wrote, o.size)
        /\ call' = [call EXCEPT ![c].pc = "outcome", ![c].filename = o.filename,
                                ![c].err = o.err, ![c].wrote = o.wrote,
                                ![c].log = Logged(c, events \o <<"provider:" \o op>>
                                    \o IF o.err # Nil
                                       THEN <<"provider:amazon.DownloadBySpotifyID">>
                                       ELSE <<>>)]

\* the selected downloader runs: it may write a file, and returns (filename, err)
Invoke(c, op, events, paths) ==
    \E o \in ProviderOutcomes(fs, paths) :
        /\ fs' = WriteFile(fs, o.wrote, o.size)
        /\ call' = [call EXCEPT ![c].pc = "outcome", ![c].filename = o.filename,
                                ![c].err = o.err, ![c].wrote = o.wrote,
                                ![c].log = Logged(c, events \o <<"provider:" \o op>>)]

\* lines 300-347: the amazon or tidal downloader is called
DT_Download(c, paths) ==
    /\ call[c].pc = "dispatch"
    /\ call[c].req.Service # "qobuz"
    /\ ProviderOp(call[c].req) # ""
    /\ Invoke(c, ProviderOp(call[c].req), <<>>, paths)
    /\ UNCHANGED <<queue, isDownloading, clock, resp, started, cfe, tasks, authVars>>

NetErrors == {"connection refused"}

\* line 363: no usable ISRC, but a Spotify ID to derive one from
QobuzNeedsResolve(req) == DeezerISRC(req) = "" /\ req.SpotifyID # ""

\* the lookups made whether the request's ISRC is usable or not
Resolutions_Always(req) ==
    {[isrc |-> i, events |-> <<"net:GetDeezerURLFromSpotify", "net:GetDeezerISRC">>] :
        i \in {ValidISRC, ""}}

\* lines 363-380 without error: the ISRC the download is made with, and the
\* lookups made to get it (GetDeezerISRC may answer with an empty ISRC)
Resolutions(req) ==
    IF QobuzNeedsResolve(req)
    THEN {[isrc |-> i, events |-> <<"net:GetDeezerURLFromSpotify", "net:GetDeezerISRC">>] :
            i \in {ValidISRC, ""}}
    ELSE {[isrc |-> DeezerISRC(req), events |-> <<>>]}

\* lines 366-372: the Deezer URL lookup fails
DT_QobuzURLFailed(c) ==
    /\ call[c].pc = "dispatch"
    /\ call[c].req.Service = "qobuz"
    /\ QobuzNeedsResolve(call[c].req)
    /\ \E e \in NetErrors :
        Return(c, Response(FALSE, "", "", "Failed to get Deezer URL: " \o e, FALSE, "", e),
               <<"net:GetDeezerURLFromSpotify">>)
    /\ UNCHANGED <<queue, isDownloading, fs, clock, resp, started, cfe, tasks, authVars>>

\* lines 373-379: the ISRC lookup fails
DT_QobuzISRCFailed(c) ==
    /\ call[c].pc = "dispatch"
    /\ call[c].req.Service = "qobuz"
    /\ QobuzNeedsResolve(call[c].req)
    /\ \E e \in NetErrors :
        Return(c, Response(FALSE, "", "", "Failed to get ISRC from Deezer: " \o e, FALSE, "", e),
               <<"net:GetDeezerURLFromSpotify", "net:GetDeezerISRC">>)
    /\ UNCHANGED <<queue, isDownloading, fs, clock, resp, started, cfe, tasks, authVars>>

\* lines 381-386: still no ISRC
DT_QobuzNoISRC(c) ==
    /\ call[c].pc = "dispatch"
    /\ call[c].req.Service = "qobuz"
    /\ \E res \in Resolutions(call[c].req) :
        /\ res.isrc = ""
        /\ Return(c, Response(FALSE, "", "",
                              "ISRC is required for Qobuz (could not fetch from Deezer)",
                              FALSE, "", "ISRC is required for Qobuz"), res.events)
    /\ UNCHANGED <<queue, isDownloading, fs, clock, resp, started, cfe, tasks, authVars>>

\* line 387: the qobuz downloader is called with the ISRC
DT_QobuzDownload(c, paths) ==
    /\ call[c].pc = "dispatch"
    /\ call[c].req.Service = "qobuz"
    /\ \E res \in Resolutions(call[c].req) :
        /\ res.isrc # ""
        /\ Invoke(c, ProviderOp(call[c].req), res.events, paths)
    /\ UNCHANGED <<queue, isDownloading, clock, resp, started, cfe, tasks, authVars>>

FailureMessage(goerr) == "Download failed: " \o goerr

\* lines 396-397: the downloader returned an error
DT_Fail(c) ==
    /\ call[c].pc = "outcome"
    /\ call[c].err # Nil
    /\ queue' = FailDownloadItem(queue, call[c].itemID, FailureMessage(call[c].err))
    /\ Step(c, "cleanup", <<"FailDownloadItem">>)
    /\ UNCHANGED <<isDownloading, fs, clock, resp, started, cfe, tasks, authVars>>

\* the error text left out of the response
FailureResponse_NoError(c) ==
    Response(FALSE, "", "", "", FALSE, call[c].itemID, call[c].err)

\* lines 409-413
FailureResponse(c) ==
    Response(FALSE, "", "", FailureMessage(call[c].err), FALSE, call[c].itemID, call[c].err)

\* lines 399-413: nothing to remove (no path, an EXISTS: path, or no such file)
DT_NoCleanup(c) ==
    /\ call[c].pc = "cleanup"
    /\ ~(IsPartialOutput(call[c].filename) /\ StatOk(call[c].filename))
    /\ Return(c, FailureResponse(c),
              IF IsPartialOutput(call[c].filename) THEN <<"fs:Stat">> ELSE <<>>)
    /\ UNCHANGED <<queue, isDownloading, fs, clock, resp, started, cfe, tasks, authVars>>

\* lines 399-413: the partial file is removed
DT_Remove(c) ==
    /\ call[c].pc = "cleanup"
    /\ IsPartialOutput(call[c].filename)
    /\ StatOk(call[c].filename)
    /\ fs' = [fs EXCEPT ![call[c].filename] = NoFile]
    /\ Return(c, FailureResponse(c), <<"fs:Stat", "fs:Remove">>)
    /\ UNCHANGED <<queue, isDownloading, clock, resp, started, cfe, tasks, authVars>>

\* lines 403-405: os.Remove fails; a warning is printed and the file stays
DT_RemoveFailed(c) ==
    /\ call[c].pc = "cleanup"
    /\ IsPartialOutput(call[c].filename)
    /\ StatOk(call[c].filename)
    /\ Return(c, FailureResponse(c), <<"fs:Stat", "fs:Remove failed">>)
    /\ UNCHANGED <<queue, isDownloading, fs, clock, resp, started, cfe, tasks, authVars>>

\* lines 422-469: the lyrics task is started
LyricsTask(req, filename, alreadyExists) ==
    IF WantsLyrics(req, filename, alreadyExists) THEN <<"go:lyrics">> ELSE <<>>

\* the history task started outside the else branch
DT_ProviderExists_History(c) ==
    /\ call[c].pc = "outcome"
    /\ call[c].err = Nil
    /\ HasPrefix(call[c].filename, "EXISTS:")
    /\ LET filename == TrimPrefix(call[c].filename, "EXISTS:")
       IN /\ queue' = SkipDownloadItem(queue, call[c].itemID, filename)
          /\ Return(c, Response(TRUE, "File already exists", filename, "", TRUE,
                                call[c].itemID, Nil),
                    LyricsTask(call[c].req, filename, TRUE)
                        \o <<"SkipDownloadItem", "go:history">>)
    /\ UNCHANGED <<isDownloading, fs, clock, resp, started, cfe, tasks, authVars>>

\* lines 416-421, 471-474, 520-526: the downloader found the file in place
DT_ProviderExists(c) ==
    /\ call[c].pc = "outcome"
    /\ call[c].err = Nil
    /\ HasPrefix(call[c].filename, "EXISTS:")
    /\ LET filename == TrimPrefix(call[c].filename, "EXISTS:")
       IN /\ queue' = SkipDownloadItem(queue, call[c].itemID, filename)
          /\ Return(c, Response(TRUE, "File already exists", filename, "", TRUE,
                                call[c].itemID, Nil),
                    LyricsTask(call[c].req, filename, TRUE) \o <<"SkipDownloadItem">>)
    /\ UNCHANGED <<isDownloading, fs, clock, resp, started, cfe, tasks, authVars>>

\* lines 416-469, 475-526: a fresh download
DT_Completed(c) ==
    /\ call[c].pc = "outcome"
    /\ call[c].err = Nil
    /\ ~HasPrefix(call[c].filename, "EXISTS:")
    /\ queue' = CompleteDownloadItem(queue, call[c].itemID, call[c].filename)
    /\ Return(c, Response(TRUE, "Download completed successfully", call[c].filename, "",
                          FALSE, call[c].itemID, Nil),
              LyricsTask(call[c].req, call[c].filename, FALSE)
                  \o <<"fs:Stat", "CompleteDownloadItem", "go:history">>)
    /\ UNCHANGED <<isDownloading, fs, clock, resp, started, cfe, tasks, authVars>>

\* the return itself: line 232's deferred SetDownloading(false), then the
\* caller gets the response
DT_Return(c) ==
    /\ call[c].pc = "return"
    /\ isDownloading' = FALSE
    /\ resp' = [resp EXCEPT ![c] = Returned(call[c].pending, call[c],
                                            Logged(c, <<"SetDownloading(false)">>))]
    /\ call' = [call EXCEPT ![c] = Idle]
    /\ UNCHANGED <<queue, fs, clock, started, cfe, tasks, authVars>>

-----------------------------------------------------------------------------
(* Queue operations the UI calls *)

\* lines 572-576
AddToDownloadQueue(isrc, ticks) ==
    /\ clock < MaxClock
    /\ queue' = AddToQueue(queue, isrc \o "-" \o ToString(clock))
    /\ \E d \in ticks : clock' = clock + d
    /\ UNCHANGED <<isDownloading, fs, call, resp, started, cfe, tasks, authVars>>

\* lines 578-580
MarkDownloadItemFailed(itemID, errorMsg) ==
    /\ queue' = FailDownloadItem(queue, itemID, errorMsg)
    /\ UNCHANGED <<isDownloading, fs, clock, call, resp, started, cfe, tasks, authVars>>

\* lines 1119-1121
SkipItem(itemID, filePath) ==
    /\ queue' = SkipDownloadItem(queue, itemID, filePath)
    /\ UNCHANGED <<isDownloading, fs, clock, call, resp, started, cfe, tasks, authVars>>

\* lines 582-584
CancelAllQueuedItems ==
    /\ queue' = CancelAllQueued(queue)
    /\ UNCHANGED <<isDownloading, fs, clock, call, resp, started, cfe, tasks, authVars>>

\* lines 564-566
ClearCompletedDownloads ==
    /\ queue' = ClearDownloadQueue(queue)
    /\ UNCHANGED <<isDownloading, fs, clock, call, resp, started, cfe, tasks, authVars>>

-----------------------------------------------------------------------------
(* CheckFilesExistence: one goroutine per track sends its index-tagged     *)
(* result on a buffered channel; the caller receives len(tracks) results   *)
(* and stores each at its index.  Slices are functions on 0..n-1.          *)

\* the fields of CheckFileExistenceRequest that decide the result
Track(sid, track, artist, format) ==
    [SpotifyID |-> sid, TrackName |-> track, ArtistName |-> artist,
     FilenameFormat |-> "", AudioFormat |-> format,
     TrackNumber |-> 0, Position |-> 0, UseAlbumTrackNumber |-> FALSE,
     IncludeTrackNumber |-> FALSE]

\* a lossless track, a lossy one, and one without artist name
TrackChoices ==
    {Track("sp1", "T", "A", ""), Track("sp2", "T", "A", "mp3"), Track("sp3", "T", "", "")}

TrackLists == UNION {[0..(n - 1) -> TrackChoices] : n \in 0..MaxTracks}

CheckFileExistenceResult(sid, exists, path, track, artist) ==
    [SpotifyID |-> sid, Exists |-> exists, FilePath |-> path, TrackName |-> track,
     ArtistName |-> artist]

\* the zero value make([]CheckFileExistenceResult, n) fills the slice with
ZeroResult == CheckFileExistenceResult("", FALSE, "", "", "")

\* lines 1074-1077: the number CheckFilesExistence hands to the filename
\* builder
CheckTrackNumber(t) ==
    IF t.UseAlbumTrackNumber /\ t.TrackNumber > 0 THEN t.TrackNumber ELSE t.Position

\* lines 1069-1099: the path the goroutine looks at
CheckPath(outputDir, t) ==
    LET filenameFormat == IF t.FilenameFormat = "" THEN "title-artist" ELSE t.FilenameFormat
        fileExt == IF t.AudioFormat = "mp3" THEN ".mp3" ELSE ".flac"
        base == BuildExpectedFilename(t.TrackName, t.ArtistName, filenameFormat,
                                      t.IncludeTrackNumber, CheckTrackNumber(t))
    IN Join(outputDir, TrimSuffix(base, ".flac") \o fileExt)

\* the test made with && for ||
ShortCircuits_Both(t) == t.TrackName = "" /\ t.ArtistName = ""

\* line 1065: a track without name or artist is not looked for
ShortCircuits(t) == t.TrackName = "" \/ t.ArtistName = ""

\* lines 1058-1104: the result the goroutine computes for track t
CheckOne(outputDir, t, files) ==
    IF ShortCircuits(t)
    THEN CheckFileExistenceResult(t.SpotifyID, FALSE, "", t.TrackName, t.ArtistName)
    ELSE IF PrecheckHit(files[CheckPath(outputDir, t)])
         THEN CheckFileExistenceResult(t.SpotifyID, TRUE, CheckPath(outputDir, t),
                                       t.TrackName, t.ArtistName)
         ELSE CheckFileExistenceResult(t.SpotifyID, FALSE, "", t.TrackName, t.ArtistName)

\* the activation: position, arguments, the goroutines still running, the
\* channel, the results slice, the loop counter and the returned slice; and
\* the indices of the results in the order they were received, and the
\* indices of the tracks os.Stat was called for
Check(pc, outputDir, tracks, running, chan, results, i, out) ==
    [pc |-> pc, outputDir |-> outputDir, tracks |-> tracks, running |-> running,
     resultsChan |-> chan, results |-> results, i |-> i, out |-> out,
     received |-> <<>>, statted |-> {}]

NoCheck == Check("idle", "", <<>>, {}, <<>>, <<>>, 0, <<>>)

\* lines 1039-1042: no tracks, an empty slice is returned
CFE_Empty ==
    /\ cfe.pc = "idle"
    /\ cfe' = Check("done", OutDir, <<>>, {}, <<>>, <<>>, 0, <<>>)
    /\ UNCHANGED <<queue, isDownloading, fs, clock, call, resp, started, tasks, authVars>>

\* lines 1044-1108: the goroutines are started and the results slice is made
CFE_Start(lists) ==
    /\ cfe.pc = "idle"
    /\ \E tracks \in lists :
        /\ DOMAIN tracks # {}
        /\ cfe' = Check("collect", OutDir, tracks, DOMAIN tracks, <<>>,
                        [k \in DOMAIN tracks |-> ZeroResult], 0, <<>>)
    /\ UNCHANGED <<queue, isDownloading, fs, clock, call, resp, started, tasks, authVars>>

\* lines 1065-1068: a track without name or artist is answered without a look
\* at the filesystem
CFE_WorkerNoName(idx) ==
    /\ cfe.pc = "collect"
    /\ idx \in cfe.running
    /\ ShortCircuits(cfe.tracks[idx])
    /\ cfe' = [cfe EXCEPT
                !.running = @ \ {idx},
                !.resultsChan = Append(@, [index |-> idx,
                    result |-> CheckOne(cfe.outputDir, cfe.tracks[idx], fs)])]
    /\ UNCHANGED <<queue, isDownloading, fs, clock, call, resp, started, tasks, authVars>>

\* lines 1070-1104: the goroutine of track idx looks for the file and sends
\* its result; the channel has room for every result
CFE_WorkerStat(idx) ==
    /\ cfe.pc = "collect"
    /\ idx \in cfe.running
    /\ ~ShortCircuits(cfe.tracks[idx])
    /\ cfe' = [cfe EXCEPT
                !.running = @ \ {idx},
                !.statted = @ \cup {idx},
                !.resultsChan = Append(@, [index |-> idx,
                    result |-> CheckOne(cfe.outputDir, cfe.tracks[idx], fs)])]
    /\ UNCHANGED <<queue, isDownloading, fs, clock, call, resp, started, tasks, authVars>>

\* the received result stored at the loop counter
CFE_Receive_Positional ==
    /\ cfe.pc = "collect"
    /\ cfe.i < Cardinality(DOMAIN cfe.tracks)
    /\ cfe.resultsChan # <<>>
    /\ LET r == Head(cfe.resultsChan)
       IN cfe' = [cfe EXCEPT !.resultsChan = Tail(@),
                             !.results = [@ EXCEPT ![cfe.i] = r.result],
                             !.i = @ + 1, !.received = Append(@, r.index)]
    /\ UNCHANGED <<queue, isDownloading, fs, clock, call, resp, started, tasks, authVars>>

\* lines 1110-1114: one result is received and stored at its index
CFE_Receive ==
    /\ cfe.pc = "collect"
    /\ cfe.i < Cardinality(DOMAIN cfe.tracks)
    /\ cfe.resultsChan # <<>>
    /\ LET r == Head(cfe.resultsChan)
       IN cfe' = [cfe EXCEPT !.resultsChan = Tail(@),
                             !.results = [@ EXCEPT ![r.index] = r.result],
                             !.i = @ + 1, !.received = Append(@, r.index)]
    /\ UNCHANGED <<queue, isDownloading, fs, clock, call, resp, started, tasks, authVars>>

\* the slice returned once a result has been received
CFE_Return_Early ==
    /\ cfe.pc = "collect"
    /\ cfe.i > 0
    /\ cfe' = [cfe EXCEPT !.pc = "done", !.out = cfe.results]
    /\ UNCHANGED <<queue, isDownloading, fs, clock, call, resp, started, tasks, authVars>>

\* line 1116
CFE_Return ==
    /\ cfe.pc = "collect"
    /\ cfe.i = Cardinality(DOMAIN cfe.tracks)
    /\ cfe' = [cfe EXCEPT !.pc = "done", !.out = cfe.results]
    /\ UNCHANGED <<queue, isDownloading, fs, clock, call, resp, started, tasks, authVars>>

-----------------------------------------------------------------------------
(* The end of a fresh download step by step (lines 416-517): the lyrics    *)
(* goroutine, the size measurement and the history goroutine.  tasks holds *)
(* for a slot how far each has come; SpecTasks follows them.               *)

\* the goroutines are not followed
NoTasks == <<>>

\* the lyrics goroutine, os.Stat of the output file and the history
\* goroutine of one download
Task(lyrics, stat, history) == [lyrics |-> lyrics, stat |-> stat, history |-> history]

NoTask == Task("none", "none", "none")

\* no goroutine of the slot's last download is still at work
Finished(task) ==
    task.lyrics \in {"none", "failed", "done"} /\ task.history \in {"none", "done"}

\* lines 416-469: the download was a fresh one; the lyrics goroutine is
\* started if lyrics are wanted
T_GoLyrics(c) ==
    /\ call[c].pc = "outcome"
    /\ call[c].err = Nil
    /\ ~HasPrefix(call[c].filename, "EXISTS:")
    /\ Finished(tasks[c])
    /\ tasks' = [tasks EXCEPT ![c] =
                    Task(IF WantsLyrics(call[c].req, call[c].filename, FALSE)
                         THEN "fetching" ELSE "none", "none", "none")]
    /\ Step(c, "stat", LyricsTask(call[c].req, call[c].filename, FALSE))
    /\ UNCHANGED <<queue, isDownloading, fs, clock, resp, started, cfe, authVars>>

\* line 476: os.Stat of the output file is called
T_Stat(c) ==
    /\ call[c].pc = "stat"
    /\ tasks' = [tasks EXCEPT ![c].stat = "measuring"]
    /\ Step(c, "measured", <<"fs:Stat">>)
    /\ UNCHANGED <<queue, isDownloading, fs, clock, resp, started, cfe, authVars>>

\* lines 476-526: os.Stat has returned, the item is completed, the history
\* goroutine is started and the response is made
T_Complete(c) ==
    /\ call[c].pc = "measured"
    /\ tasks' = [tasks EXCEPT ![c].stat = "done", ![c].history = "started"]
    /\ queue' = CompleteDownloadItem(queue, call[c].itemID, call[c].filename)
    /\ Return(c, Response(TRUE, "Download completed successfully", call[c].filename, "",
                          FALSE, call[c].itemID, Nil),
              <<"CompleteDownloadItem", "go:history">>)
    /\ UNCHANGED <<isDownloading, fs, clock, resp, started, cfe, authVars>>

\* lines 431-455: no source has lyrics for the track
T_LyricsFailed(c) ==
    /\ tasks[c].lyrics = "fetching"
    /\ tasks' = [tasks EXCEPT ![c].lyrics = "failed"]
    /\ UNCHANGED <<queue, isDownloading, fs, clock, call, resp, started, cfe, authVars>>

\* lines 431-461: the lyrics have arrived and EmbedLyricsOnly begins to
\* rewrite the output file
T_EmbedLyrics(c) ==
    /\ tasks[c].lyrics = "fetching"
    /\ tasks' = [tasks EXCEPT ![c].lyrics = "writing"]
    /\ UNCHANGED <<queue, isDownloading, fs, clock, call, resp, started, cfe, authVars>>

\* lines 461-467: EmbedLyricsOnly has returned
T_Embedded(c) ==
    /\ tasks[c].lyrics = "writing"
    /\ tasks' = [tasks EXCEPT ![c].lyrics = "done"]
    /\ UNCHANGED <<queue, isDownloading, fs, clock, call, resp, started, cfe, authVars>>

\* lines 485-489: the history goroutine calls GetTrackMetadata on the file
T_ReadMetadata(c) ==
    /\ tasks[c].history = "started"
    /\ tasks' = [tasks EXCEPT ![c].history = "reading"]
    /\ UNCHANGED <<queue, isDownloading, fs, clock, call, resp, started, cfe, authVars>>

\* lines 489-516: GetTrackMetadata has returned and the item is added
T_AddHistory(c) ==
    /\ tasks[c].history = "reading"
    /\ tasks' = [tasks EXCEPT ![c].history = "done"]
    /\ UNCHANGED <<queue, isDownloading, fs, clock, call, resp, started, cfe, authVars>>

-----------------------------------------------------------------------------
(* SpotifyAuthClient (src/backend/spotify_auth.go).  NewSpotifyAuthClient  *)
(* hands every caller the one globalAuthClient, so the client's fields are *)
(* one record.  Moments are seconds; every call of a scenario reads the    *)
(* same time.Now().                                                        *)

Now == 0

\* lines 29-36: the fields of a new client
ZeroClient == [accessToken |-> "", refreshToken |-> "", expiresAt |-> 0, codeVerifier |-> ""]

\* lines 175-179
AuthTokens(access, refresh, expires) ==
    [AccessToken |-> access, RefreshToken |-> refresh, ExpiresAt |-> expires]

NoTokens == AuthTokens("", "", -1)

\* lines 38-44: the fields of SpotifyTokenResponse the client reads
SpotifyTokenResponse(access, refresh, expiresIn) ==
    [AccessToken |-> access, RefreshToken |-> refresh, ExpiresIn |-> expiresIn]

\* lines 211-231: the AuthTokens saveTokens writes
TokensOf(cl) == AuthTokens(cl.accessToken, cl.refreshToken, cl.expiresAt)

\* saveTokens: the file written, or an error (no directory, no write access)
\* and the file as it was
SaveOutcomes(cl, file) ==
    {[file |-> TokensOf(cl), err |-> Nil], [file |-> file, err |-> "permission denied"]}

\* lines 279-283: 32 random bytes; the n-th verifier generated
generateCodeVerifier(n) == "verifier" \o ToString(n)

\* lines 285-287
generateCodeChallenge(verifier) == verifier

\* the authorization code Spotify hands out for an authorization request: it
\* is bound to the code_challenge of that request (RFC 7636, section 4.4)
CodeFor(challenge) == "code:" \o challenge

ChallengeOf(code) == TrimPrefix(code, "code:")

\* an answer of an endpoint: a transport error, or a status with a body, as
\* text and as what json.Unmarshal makes of it
Answer(err, status, text, body) ==
    [err |-> err, status |-> status, text |-> text, body |-> body]

\* a body that is not JSON
Malformed == "<html>"

NoTokenResponse == SpotifyTokenResponse("", "", 0)

\* what the token endpoint may answer to a request it accepts: new tokens,
\* with or without a new refresh token, good for an hour or for a minute
GrantedAnswers ==
    {Answer(Nil, 200, "{...}", SpotifyTokenResponse("access2", r, e)) :
        r \in {"refresh2", ""}, e \in {3600, 60}}

\* what it may answer to any request
RefusedAnswers ==
    {Answer("connection refused", 0, "", NoTokenResponse),
     Answer(Nil, 400, "invalid_grant", NoTokenResponse),
     Answer(Nil, 200, Malformed, NoTokenResponse)}

\* the token endpoint answers an authorization_code request: it grants tokens
\* only when the code_verifier matches the challenge the code was issued for
ExchangeAnswers(code, verifier) ==
    RefusedAnswers \cup
    (IF verifier = generateCodeChallenge(ChallengeOf(code)) THEN GrantedAnswers ELSE {})

\* no answer: nothing was sent
NoAnswer == Answer(Nil, 0, "", NoTokenResponse)

\* the ghost record of a token request sent
TokenRequest(grant, code, verifier, refresh) ==
    [grant_type |-> grant, code |-> code, code_verifier |-> verifier, refresh_token |-> refresh]

\* the result of a client method: the client and the token file after it, and
\* the error returned
Result(cl, file, err) == [client |-> cl, file |-> file, err |-> err]

\* lines 385-405: the error ExchangeCode / RefreshAccessToken returns for an
\* answer it does not take tokens from, Nil for one it does
AnswerError(answer, what) ==
    IF answer.err # Nil THEN answer.err
    ELSE IF answer.status # 200 THEN what \o " failed: " \o answer.text
    ELSE IF answer.text = Malformed THEN "invalid character '<'"
    ELSE Nil

\* lines 373-415: ExchangeCode after the answer of the token endpoint
ExchangeResults(cl, file, answer) ==
    IF AnswerError(answer, "token exchange") # Nil
    THEN {Result(cl, file, AnswerError(answer, "token exchange"))}
    ELSE LET stored == [cl EXCEPT !.accessToken = answer.body.AccessToken,
                                  !.refreshToken = answer.body.RefreshToken,
                                  !.expiresAt = Now + answer.body.ExpiresIn]
         IN {Result(stored, o.file, o.err) : o \in SaveOutcomes(stored, file)}

\* lines 486-490
IsAuthenticated(cl) == cl.accessToken # "" /\ cl.refreshToken # ""

\* the login of the frontend (useSpotifyLibrary.ts, startAuth): its position,
\* the URL it got and the one the browser opened (by their code_challenge),
\* the code the callback received, the error it ended with; and how many
\* verifiers have been generated so far
Login(pc, url, opened, code, err, generated) ==
    [pc |-> pc, url |-> url, opened |-> opened, code |-> code, err |-> err,
     generated |-> generated]

NoLogin == Login("idle", "", "", "", Nil, 0)

\* a makeRequest activation: its position, the endpoint, who called, the
\* client as EnsureValidToken found it and how its refresh ended ("" without
\* one), the requests sent, and at its return the error and the answer
ApiCall(pc, endpoint, owner, err, answer) ==
    [pc |-> pc, endpoint |-> endpoint, owner |-> owner, err |-> err, answer |-> answer,
     found |-> ZeroClient, refresh |-> "", sent |-> <<>>]

\* a page of the library: the items, the total and the link to the next page
Page(items, total, next) == [Items |-> items, Total |-> total, Next |-> next]

NoPage == Page(<<>>, 0, "")

NoCall == ApiCall("idle", "", "", Nil, Answer(Nil, 0, "", NoPage))

\* the last token method (ExchangeCode, RefreshAccessToken) that returned:
\* the client before it, the token requests it sent, the answer it got and
\* the error it returned
Returned_(op, before, sent, answer, err) ==
    [op |-> op, before |-> before, sent |-> sent, answer |-> answer, err |-> err]

\* the Web API side: the last token method that returned and the makeRequest
\* in progress
Api(last, activation) == [last |-> last, call |-> activation]

NoApi == Api(Returned_("", ZeroClient, <<>>, NoAnswer, Nil), NoCall)

\* an activation of GetAllLikedSongs / GetAllUserPlaylists: its position, the
\* path it pages through, its locals offset, allTracks and total, the error
\* it returns, and the offsets it asked for and the pages it got so far
Fetch(pc, path, offset, items, total, err, asked, pages) ==
    [pc |-> pc, path |-> path, offset |-> offset, items |-> items, total |-> total,
     err |-> err, asked |-> asked, pages |-> pages]

\* GetAllLikedSongs / GetAllUserPlaylists is not running
NoFetch == Fetch("idle", "", 0, <<>>, 0, Nil, <<>>, <<>>)

\* nobody is logged in and nothing is saved
LoggedOut ==
    /\ client = ZeroClient
    /\ tokenFile = NoTokens
    /\ login = NoLogin
    /\ spotify = NoApi
    /\ library = NoFetch

\* lines 289-303: a new verifier replaces the client's; the URL carries its challenge
GetAuthURL ==
    /\ login.generated < MaxVerifiers
    /\ client' = [client EXCEPT !.codeVerifier = generateCodeVerifier(login.generated + 1)]

\* app.go lines 1210-1213, called at useSpotifyLibrary.ts line 95
L_GetSpotifyAuthURL ==
    /\ login.pc = "idle"
    /\ library.pc = "idle"
    /\ GetAuthURL
    /\ login' = [login EXCEPT !.pc = "open", !.generated = @ + 1,
                              !.url = generateCodeChallenge(client'.codeVerifier)]
    /\ UNCHANGED <<tokenFile, spotify, library, downloadVars>>

\* useSpotifyLibrary.ts line 96: the browser opens the URL just received
L_BrowserOpenURL ==
    /\ login.pc = "open"
    /\ login' = [login EXCEPT !.pc = "start", !.opened = login.url]
    /\ UNCHANGED <<client, tokenFile, spotify, library, downloadVars>>

\* app.go lines 1215-1220 and lines 305-330: StartAuthFlow calls GetAuthURL,
\* keeps nothing of its URL, and listens for the callback
L_StartAuthFlow ==
    /\ login.pc = "start"
    /\ GetAuthURL
    /\ login' = [login EXCEPT !.pc = "listening", !.generated = @ + 1]
    /\ UNCHANGED <<tokenFile, spotify, library, downloadVars>>

\* lines 312-315: port 8888 is taken
L_ListenFailed ==
    /\ login.pc = "start"
    /\ GetAuthURL
    /\ login' = [login EXCEPT !.pc = "failed", !.generated = @ + 1,
                              !.err = "failed to start callback server"]
    /\ UNCHANGED <<tokenFile, spotify, library, downloadVars>>

\* lines 317-342, 360-362: the user approved in the browser, Spotify redirects
\* to the callback with a code for the request the browser had opened
L_CallbackCode ==
    /\ login.pc = "listening"
    /\ login' = [login EXCEPT !.pc = "exchange", !.code = CodeFor(login.opened)]
    /\ UNCHANGED <<client, tokenFile, spotify, library, downloadVars>>

\* lines 327-339, 363-370: the user refused, or nothing came in five minutes
L_CallbackError ==
    /\ login.pc = "listening"
    /\ \E e \in {"authorization error: access_denied", "authorization timeout"} :
        login' = [login EXCEPT !.pc = "failed", !.err = e]
    /\ UNCHANGED <<client, tokenFile, spotify, library, downloadVars>>

\* lines 373-415 for a given code: the request is sent with the client's
\* verifier, the answer is taken, and the method has returned
ExchangeCode(code) ==
    \E answer \in ExchangeAnswers(code, client.codeVerifier) :
    \E res \in ExchangeResults(client, tokenFile, answer) :
        /\ client' = res.client
        /\ tokenFile' = res.file
        /\ spotify' = [spotify EXCEPT
                     !.last = Returned_("ExchangeCode", client,
                                        <<TokenRequest("authorization_code", code,
                                                       client.codeVerifier, "")>>,
                                        answer, res.err)]

\* app.go lines 1225-1227: the code of the callback is exchanged; after an
\* exchange without error StartSpotifyAuth would go on to GetUserProfile
\* (lines 1229-1234)
L_ExchangeCode ==
    /\ login.pc = "exchange"
    /\ ExchangeCode(login.code)
    /\ login' = [login EXCEPT !.pc = IF spotify'.last.err = Nil THEN "profile" ELSE "failed",
                              !.err = spotify'.last.err]
    /\ UNCHANGED <<library, downloadVars>>

\* app.go lines 1237-1240: instead of StartSpotifyAuth, the code the browser
\* was redirected with is handed to ExchangeSpotifyCode
L_ExchangeSpotifyCode ==
    /\ login.pc = "start"
    /\ ExchangeCode(CodeFor(login.opened))
    /\ login' = [login EXCEPT !.pc = IF spotify'.last.err = Nil THEN "done" ELSE "failed",
                              !.code = CodeFor(login.opened),
                              !.err = spotify'.last.err]
    /\ UNCHANGED <<library, downloadVars>>

\* the refresh token taken from every answer
RefreshResults_AlwaysReplaces(cl, file, answer) ==
    IF AnswerError(answer, "token refresh") # Nil
    THEN {Result(cl, file, AnswerError(answer, "token refresh"))}
    ELSE LET stored == [cl EXCEPT !.accessToken = answer.body.AccessToken,
                                  !.refreshToken = answer.body.RefreshToken,
                                  !.expiresAt = Now + answer.body.ExpiresIn]
         IN {Result(stored, o.file, o.err) : o \in SaveOutcomes(stored, file)}

\* lines 417-467: RefreshAccessToken after the answer of the token endpoint
RefreshResults(cl, file, answer) ==
    IF AnswerError(answer, "token refresh") # Nil
    THEN {Result(cl, file, AnswerError(answer, "token refresh"))}
    ELSE LET stored == [cl EXCEPT !.accessToken = answer.body.AccessToken,
                                  !.refreshToken = IF answer.body.RefreshToken # ""
                                                   THEN answer.body.RefreshToken ELSE @,
                                  !.expiresAt = Now + answer.body.ExpiresIn]
         IN {Result(stored, o.file, o.err) : o \in SaveOutcomes(stored, file)}

\* an outcome of a token method: the client and the token file after it, the
\* error returned, the answer taken and the requests sent
Outcome_(res, answer, sent) ==
    [client |-> res.client, file |-> res.file, err |-> res.err, answer |-> answer,
     sent |-> sent]

\* lines 417-467: without refresh token no request is sent; otherwise the
\* request is sent and the answer taken
RefreshOutcomes(cl, file) ==
    IF cl.refreshToken = ""
    THEN {Outcome_(Result(cl, file, "no refresh token available"), NoAnswer, <<>>)}
    ELSE UNION {{Outcome_(res, answer,
                          <<TokenRequest("refresh_token", "", "", cl.refreshToken)>>) :
                    res \in RefreshResults(cl, file, answer)} :
                answer \in RefusedAnswers \cup GrantedAnswers}

\* line 477: time.Now().Add(5 * time.Minute).After(expiresAt)
ExpiresSoon(expiresAt) == Now + 5 * 60 > expiresAt

\* line 496: a client method calls makeRequest
MR_Begin(endpoint, owner) ==
    /\ spotify.call.pc = "idle"
    /\ spotify' = [spotify EXCEPT !.call = ApiCall("ensure", endpoint, owner, Nil, NoCall.answer)]

\* the activation of makeRequest returns to its caller
MR_Return(err, answer) ==
    [spotify.call EXCEPT !.pc = "returned", !.err = err, !.answer = answer]

\* lines 470-477, 497-499: no access token; nothing is sent
MR_NotAuthenticated ==
    /\ spotify.call.pc = "ensure"
    /\ client.accessToken = ""
    /\ spotify' = [spotify EXCEPT !.call = [MR_Return("not authenticated", NoCall.answer)
                                            EXCEPT !.found = client]]
    /\ UNCHANGED <<client, tokenFile, login, library, downloadVars>>

\* lines 470-483: the token is good for more than five minutes
MR_Valid ==
    /\ spotify.call.pc = "ensure"
    /\ client.accessToken # ""
    /\ ~ExpiresSoon(client.expiresAt)
    /\ spotify' = [spotify EXCEPT !.call.pc = "send", !.call.found = client]
    /\ UNCHANGED <<client, tokenFile, login, library, downloadVars>>

\* lines 477-479, 497-499: the token is refreshed first; an error of the
\* refresh is the error of makeRequest
MR_Refresh ==
    /\ spotify.call.pc = "ensure"
    /\ client.accessToken # ""
    /\ ExpiresSoon(client.expiresAt)
    /\ \E o \in RefreshOutcomes(client, tokenFile) :
        /\ client' = o.client
        /\ tokenFile' = o.file
        /\ spotify' = [spotify EXCEPT
                     !.last = Returned_("RefreshAccessToken", client, o.sent, o.answer, o.err),
                     !.call = [(IF o.err = Nil THEN [@ EXCEPT !.pc = "send"]
                                ELSE MR_Return(o.err, NoCall.answer))
                               EXCEPT !.found = client,
                                      !.refresh = IF o.err = Nil THEN "ok" ELSE "failed"]]
    /\ UNCHANGED <<login, library, downloadVars>>

\* an endpoint: the path, and the limit and offset of the page asked for
Endpoint(path, limit, offset) == [path |-> path, limit |-> limit, offset |-> offset]

\* the ghost record of an API request sent
ApiRequest(endpoint, token) == [endpoint |-> endpoint, Authorization |-> "Bearer " \o token]

\* lines 501-518: the client's access token is read again and the request is
\* sent with it; makeRequest returns what client.Do returns
MR_Send(answers) ==
    /\ spotify.call.pc = "send"
    /\ \E answer \in answers :
        spotify' = [spotify EXCEPT
                  !.call = [MR_Return(answer.err, answer) EXCEPT
                              !.sent = Append(@, ApiRequest(spotify.call.endpoint,
                                                            client.accessToken))]]
    /\ UNCHANGED <<client, tokenFile, login, library, downloadVars>>

\* lines 258-271, 492-494, app.go lines 1242-1245: the tokens are cleared in
\* memory, then the file is removed
Logout ==
    /\ IsAuthenticated(client) \/ tokenFile # NoTokens
    /\ client' = [client EXCEPT !.accessToken = "", !.refreshToken = "", !.expiresAt = 0]
    /\ tokenFile' = NoTokens
    /\ UNCHANGED <<login, spotify, library, downloadVars>>

\* lines 555-574, 618-637: the error a page getter returns for an answer
GetError(answer, what) ==
    IF answer.err # Nil THEN answer.err
    ELSE IF answer.status # 200 THEN "failed to get " \o what \o ": " \o answer.text
    ELSE IF answer.text = Malformed THEN "invalid character '<'"
    ELSE Nil

\* useSpotifyLibrary.ts lines 104-111: the login has ended; another may begin
L_Again ==
    /\ login.pc \in {"failed", "done"}
    /\ login' = [NoLogin EXCEPT !.generated = login.generated]
    /\ UNCHANGED <<client, tokenFile, spotify, library, downloadVars>>

\* lines 577-580, 640-643: the limit of every page
PageLimit == 50

\* what the Web API may answer to a page request at an offset: a failure, or
\* a page of no, one or two items, with a link to the next page or (always
\* on the library's last page) without
PageAnswers(offset) ==
    {Answer("connection refused", 0, "", NoPage), Answer(Nil, 401, "expired", NoPage),
     Answer(Nil, 200, Malformed, NoPage)}
    \cup {Answer(Nil, 200, "{...}", Page(items, 2 * MaxPages, next)) :
            items \in {<<>>, <<offset + 1>>, <<offset + 1, offset + 2>>},
            next \in IF offset < (MaxPages - 1) * PageLimit THEN {"", "next"} ELSE {""}}

\* lines 577-581, 640-644, app.go lines 1368, 1480: the UI asks for the whole
\* library, when no login is going on
F_Start ==
    /\ library.pc = "idle"
    /\ login.pc = "idle"
    /\ \E path \in {"/me/tracks", "/me/playlists"} :
        library' = Fetch("loop", path, 0, <<>>, 0, Nil, <<>>, <<>>)
    /\ UNCHANGED <<client, tokenFile, login, spotify, downloadVars>>

\* lines 584-588, 647-651: the context is done at the top of the loop
F_Cancelled ==
    /\ library.pc = "loop"
    /\ library' = [library EXCEPT !.pc = "returned", !.err = "context canceled"]
    /\ UNCHANGED <<client, tokenFile, login, spotify, downloadVars>>

\* lines 590, 545-554, 653, 608-617: the page at the offset is asked for
F_GetPage ==
    /\ library.pc = "loop"
    /\ MR_Begin(Endpoint(library.path, PageLimit, library.offset), "library")
    /\ library' = [library EXCEPT !.pc = "waiting", !.asked = Append(@, library.offset)]
    /\ UNCHANGED <<client, tokenFile, login, downloadVars>>

\* the loop goes on at the offset of the page's last item
F_Page_ByItems ==
    /\ library.pc = "waiting"
    /\ spotify.call.pc = "returned" /\ spotify.call.owner = "library"
    /\ LET err == IF spotify.call.err # Nil THEN spotify.call.err
                  ELSE GetError(spotify.call.answer,
                                IF library.path = "/me/tracks" THEN "liked songs"
                                ELSE "playlists")
           page == spotify.call.answer.body
       IN library' =
            IF err # Nil THEN [library EXCEPT !.pc = "returned", !.err = err]
            ELSE [library EXCEPT
                    !.pc = IF page.Next = "" \/ Len(page.Items) = 0
                           THEN "returned" ELSE "loop",
                    !.total = page.Total,
                    !.items = @ \o page.Items,
                    !.pages = Append(@, page),
                    !.offset = IF page.Next = "" \/ Len(page.Items) = 0
                               THEN @ ELSE @ + Len(page.Items)]
    /\ spotify' = [spotify EXCEPT !.call = NoCall]
    /\ UNCHANGED <<client, tokenFile, login, downloadVars>>

\* lines 555-574, 590-603, 618-637, 653-666: the page getter returns the page
\* or an error; with an error the loop returns what it has, otherwise it
\* takes the total and the items and goes on unless the page was the last
F_Page ==
    /\ library.pc = "waiting"
    /\ spotify.call.pc = "returned" /\ spotify.call.owner = "library"
    /\ LET err == IF spotify.call.err # Nil THEN spotify.call.err
                  ELSE GetError(spotify.call.answer,
                                IF library.path = "/me/tracks" THEN "liked songs"
                                ELSE "playlists")
           page == spotify.call.answer.body
       IN library' =
            IF err # Nil THEN [library EXCEPT !.pc = "returned", !.err = err]
            ELSE [library EXCEPT
                    !.pc = IF page.Next = "" \/ Len(page.Items) = 0
                           THEN "returned" ELSE "loop",
                    !.total = page.Total,
                    !.items = @ \o page.Items,
                    !.pages = Append(@, page),
                    !.offset = IF page.Next = "" \/ Len(page.Items) = 0
                               THEN @ ELSE @ + PageLimit]
    /\ spotify' = [spotify EXCEPT !.call = NoCall]
    /\ UNCHANGED <<client, tokenFile, login, downloadVars>>

\* app.go lines 1368-1372, 1480-1484: the caller has taken the result
F_Done ==
    /\ library.pc = "returned"
    /\ library' = NoFetch
    /\ UNCHANGED <<client, tokenFile, login, spotify, downloadVars>>

-----------------------------------------------------------------------------
(* SpecAccount: the user logs in through the frontend, asks for the liked  *)
(* songs and the playlists, and logs out at any moment; the client starts  *)
(* with the tokens of the token file, if there is one.                     *)

\* lines 184-201, 233-256: the tokens a token file may hold: good for an hour or
\* about to expire, with or without refresh token
SavedTokens ==
    {NoTokens} \cup {AuthTokens("access1", r, e) : r \in {"refresh1", ""}, e \in {3600, 60}}

InitAccount ==
    /\ queue = EmptyQueue
    /\ isDownloading = FALSE
    /\ fs = [p \in Paths |-> NoFile]
    /\ clock = 0
    /\ call = [c \in Slots |-> Idle]
    /\ resp = [c \in Slots |-> NoResponse]
    /\ started = 0
    /\ cfe = NoCheck
    /\ tasks = NoTasks
    /\ \E saved \in SavedTokens :
        /\ tokenFile = saved
        /\ client = IF saved = NoTokens THEN ZeroClient
                    ELSE [ZeroClient EXCEPT !.accessToken = saved.AccessToken,
                                            !.refreshToken = saved.RefreshToken,
                                            !.expiresAt = saved.ExpiresAt]
    /\ login = NoLogin
    /\ spotify = NoApi
    /\ library = NoFetch

AccountNext ==
    \/ L_GetSpotifyAuthURL
    \/ L_BrowserOpenURL
    \/ L_StartAuthFlow
    \/ L_ListenFailed
    \/ L_CallbackCode
    \/ L_CallbackError
    \/ L_ExchangeCode
    \/ L_ExchangeSpotifyCode
    \/ L_Again
    \/ MR_NotAuthenticated
    \/ MR_Valid
    \/ MR_Refresh
    \/ MR_Send(PageAnswers(spotify.call.endpoint.offset))
    \/ F_Start
    \/ F_Cancelled
    \/ F_GetPage
    \/ F_Page
    \/ F_Done
    \/ Logout

SpecAccount == InitAccount /\ [][AccountNext]_vars

-----------------------------------------------------------------------------
(* Spec: the UI uses the application one operation at a time.  It puts     *)
(* tracks on the queue and downloads them, with or without the item id;    *)
(* the clock has moved on from one operation to the next.                  *)

Init ==
    /\ queue = EmptyQueue
    /\ isDownloading = FALSE
    /\ \E size \in {NoFile, MinFileSize, FullSize} :
        fs = [p \in Paths |-> IF p = "/out/T - A.flac" THEN size ELSE NoFile]
    /\ clock = 0
    /\ call = [c \in Slots |-> Idle]
    /\ resp = [c \in Slots |-> NoResponse]
    /\ started = 0
    /\ cfe = NoCheck
    /\ tasks = NoTasks
    /\ LoggedOut

AllIdle == \A c \in Slots : call[c].pc = "idle"

\* the item ids a caller can send: none, or one it finds on the queue
ItemIDs == {""} \cup DOMAIN queue

Next ==
    \/ \E c \in Slots : DT_Reject(c, Requests(ItemIDs), MaxCalls)
    \/ \E c \in Slots : DT_Begin(c, Requests(ItemIDs), MaxCalls)
    \/ \E c \in Slots : DT_Register(c, {1})
    \/ \E c \in Slots : DT_SetDownloading(c)
    \/ \E c \in Slots : DT_Start(c)
    \/ \E c \in Slots : DT_NoBackfill(c)
    \/ \E c \in Slots : DT_BackfillFailed(c)
    \/ \E c \in Slots : DT_Backfill(c, TrackData \ {NoTrackData})
    \/ \E c \in Slots : DT_NoPrecheck(c)
    \/ \E c \in Slots : DT_PrecheckMiss(c)
    \/ \E c \in Slots : DT_PrecheckHit(c)
    \/ \E c \in Slots : DT_DispatchError(c)
    \/ \E c \in Slots : DT_Download(c, ProviderPaths)
    \/ \E c \in Slots : DT_QobuzURLFailed(c)
    \/ \E c \in Slots : DT_QobuzISRCFailed(c)
    \/ \E c \in Slots : DT_QobuzNoISRC(c)
    \/ \E c \in Slots : DT_QobuzDownload(c, ProviderPaths)
    \/ \E c \in Slots : DT_Fail(c)
    \/ \E c \in Slots : DT_NoCleanup(c)
    \/ \E c \in Slots : DT_Remove(c)
    \/ \E c \in Slots : DT_RemoveFailed(c)
    \/ \E c \in Slots : DT_ProviderExists(c)
    \/ \E c \in Slots : DT_Completed(c)
    \/ \E c \in Slots : DT_Return(c)
    \/ AllIdle /\ started < MaxCalls /\ AddToDownloadQueue("sp1", {1})

Spec == Init /\ [][Next]_vars

-----------------------------------------------------------------------------
(* SpecQueue: the UI works on the queue while a download runs; two reads   *)
(* of the clock may give the same time.                                    *)

\* a download is running or still to come
Pending == started < MaxCalls \/ ~AllIdle

QueueNext ==
    \/ \E c \in Slots : DT_Begin(c, TidalRequests(ItemIDs), MaxCalls)
    \/ \E c \in Slots : DT_Register(c, {0, 1})
    \/ \E c \in Slots : DT_SetDownloading(c)
    \/ \E c \in Slots : DT_Start(c)
    \/ \E c \in Slots : DT_NoBackfill(c)
    \/ \E c \in Slots : DT_NoPrecheck(c)
    \/ \E c \in Slots : DT_PrecheckMiss(c)
    \/ \E c \in Slots : DT_PrecheckHit(c)
    \/ \E c \in Slots : DT_Download(c, {"/out/T - A.flac"})
    \/ \E c \in Slots : DT_Fail(c)
    \/ \E c \in Slots : DT_NoCleanup(c)
    \/ \E c \in Slots : DT_Remove(c)
    \/ \E c \in Slots : DT_RemoveFailed(c)
    \/ \E c \in Slots : DT_ProviderExists(c)
    \/ \E c \in Slots : DT_Completed(c)
    \/ \E c \in Slots : DT_Return(c)
    \/ started < MaxCalls /\ AddToDownloadQueue("sp1", {0, 1})
    \/ Pending /\ \E id \in DOMAIN queue : MarkDownloadItemFailed(id, "marked failed")
    \/ Pending /\ \E id \in DOMAIN queue : SkipItem(id, "/out/T - A.flac")
    \/ Pending /\ CancelAllQueuedItems
    \/ Pending /\ ClearCompletedDownloads

SpecQueue == Init /\ [][QueueNext]_vars

-----------------------------------------------------------------------------
(* SpecRepeat: the same tracks are downloaded again and again, one call    *)
(* after the other.                                                        *)

RepeatNext ==
    \/ \E c \in Slots : DT_Reject(c, QueueRequests({""}), MaxRepeats)
    \/ \E c \in Slots : DT_Begin(c, QueueRequests({""}), MaxRepeats)
    \/ \E c \in Slots : DT_Register(c, {1})
    \/ \E c \in Slots : DT_SetDownloading(c)
    \/ \E c \in Slots : DT_Start(c)
    \/ \E c \in Slots : DT_NoBackfill(c)
    \/ \E c \in Slots : DT_NoPrecheck(c)
    \/ \E c \in Slots : DT_PrecheckMiss(c)
    \/ \E c \in Slots : DT_PrecheckHit(c)
    \/ \E c \in Slots : DT_DispatchError(c)
    \/ \E c \in Slots : DT_Download(c, {"/out/T - A.flac"})
    \/ \E c \in Slots : DT_Fail(c)
    \/ \E c \in Slots : DT_NoCleanup(c)
    \/ \E c \in Slots : DT_Remove(c)
    \/ \E c \in Slots : DT_RemoveFailed(c)
    \/ \E c \in Slots : DT_ProviderExists(c)
    \/ \E c \in Slots : DT_Completed(c)
    \/ \E c \in Slots : DT_Return(c)

SpecRepeat == Init /\ [][RepeatNext]_vars

-----------------------------------------------------------------------------
(* SpecBackfill: downloads of a track of which the caller knows some of    *)
(* the descriptive fields, the Spotify data source knowing some or none.   *)

BackfillNext ==
    \/ \E c \in Slots : DT_Begin(c, BackfillRequests, MaxCalls)
    \/ \E c \in Slots : DT_Register(c, {1})
    \/ \E c \in Slots : DT_SetDownloading(c)
    \/ \E c \in Slots : DT_Start(c)
    \/ \E c \in Slots : DT_NoBackfill(c)
    \/ \E c \in Slots : DT_BackfillFailed(c)
    \/ \E c \in Slots : DT_Backfill(c, TrackAnswers)
    \/ \E c \in Slots : DT_PrecheckMiss(c)
    \/ \E c \in Slots : DT_PrecheckHit(c)
    \/ \E c \in Slots : DT_Download(c, {"/out/T - A.flac"})
    \/ \E c \in Slots : DT_Fail(c)
    \/ \E c \in Slots : DT_NoCleanup(c)
    \/ \E c \in Slots : DT_Remove(c)
    \/ \E c \in Slots : DT_RemoveFailed(c)
    \/ \E c \in Slots : DT_ProviderExists(c)
    \/ \E c \in Slots : DT_Completed(c)
    \/ \E c \in Slots : DT_Return(c)

SpecBackfill == Init /\ [][BackfillNext]_vars

-----------------------------------------------------------------------------
(* SpecLyrics: downloads with and without EmbedLyrics, to a lossless or a  *)
(* lossy file, each on an item of its own.                                 *)

LyricsNext ==
    \/ \E c \in Slots : DT_Begin(c, LyricsRequests, MaxCalls)
    \/ \E c \in Slots : DT_Register(c, {1})
    \/ \E c \in Slots : DT_SetDownloading(c)
    \/ \E c \in Slots : DT_Start(c)
    \/ \E c \in Slots : DT_NoBackfill(c)
    \/ \E c \in Slots : DT_NoPrecheck(c)
    \/ \E c \in Slots : DT_PrecheckMiss(c)
    \/ \E c \in Slots : DT_PrecheckHit(c)
    \/ \E c \in Slots : DT_DispatchError(c)
    \/ \E c \in Slots : DT_Download(c, ProviderPaths)
    \/ \E c \in Slots : DT_Fail(c)
    \/ \E c \in Slots : DT_NoCleanup(c)
    \/ \E c \in Slots : DT_Remove(c)
    \/ \E c \in Slots : DT_RemoveFailed(c)
    \/ \E c \in Slots : DT_ProviderExists(c)
    \/ \E c \in Slots : DT_Completed(c)
    \/ \E c \in Slots : DT_Return(c)

SpecLyrics == Init /\ [][LyricsNext]_vars

-----------------------------------------------------------------------------
(* SpecTasks: the downloads of SpecLyrics with the end of a fresh download *)
(* taken step by step and its goroutines running on after the return.      *)

InitTasks ==
    /\ queue = EmptyQueue
    /\ isDownloading = FALSE
    /\ \E size \in {NoFile, MinFileSize, FullSize} :
        fs = [p \in Paths |-> IF p = "/out/T - A.flac" THEN size ELSE NoFile]
    /\ clock = 0
    /\ call = [c \in Slots |-> Idle]
    /\ resp = [c \in Slots |-> NoResponse]
    /\ started = 0
    /\ cfe = NoCheck
    /\ tasks = [c \in Slots |-> NoTask]
    /\ LoggedOut

TasksNext ==
    \/ \E c \in Slots : DT_Begin(c, LyricsRequests, MaxCalls)
    \/ \E c \in Slots : DT_Register(c, {1})
    \/ \E c \in Slots : DT_SetDownloading(c)
    \/ \E c \in Slots : DT_Start(c)
    \/ \E c \in Slots : DT_NoBackfill(c)
    \/ \E c \in Slots : DT_NoPrecheck(c)
    \/ \E c \in Slots : DT_PrecheckMiss(c)
    \/ \E c \in Slots : DT_PrecheckHit(c)
    \/ \E c \in Slots : DT_DispatchError(c)
    \/ \E c \in Slots : DT_Download(c, ProviderPaths)
    \/ \E c \in Slots : DT_Fail(c)
    \/ \E c \in Slots : DT_NoCleanup(c)
    \/ \E c \in Slots : DT_Remove(c)
    \/ \E c \in Slots : DT_RemoveFailed(c)
    \/ \E c \in Slots : DT_ProviderExists(c)
    \/ \E c \in Slots : T_GoLyrics(c)
    \/ \E c \in Slots : T_Stat(c)
    \/ \E c \in Slots : T_Complete(c)
    \/ \E c \in Slots : T_LyricsFailed(c)
    \/ \E c \in Slots : T_EmbedLyrics(c)
    \/ \E c \in Slots : T_Embedded(c)
    \/ \E c \in Slots : T_ReadMetadata(c)
    \/ \E c \in Slots : T_AddHistory(c)
    \/ \E c \in Slots : DT_Return(c)

SpecTasks == InitTasks /\ [][TasksNext]_vars

-----------------------------------------------------------------------------
(* SpecFlag: the UI starts several downloads at once; every bound method   *)
(* call runs on a goroutine of its own.                                    *)

Callers == 1..MaxConcurrent

\* the requests of the concurrent scenario: a named track by Spotify ID
FlagRequests == {r \in TidalRequests({""}) : HasNames(r)}

InitFlag ==
    /\ queue = EmptyQueue
    /\ isDownloading = FALSE
    /\ \E size \in {NoFile, FullSize} :
        fs = [p \in Paths |-> IF p = "/out/T - A.flac" THEN size ELSE NoFile]
    /\ clock = 0
    /\ call = [c \in Callers |-> Idle]
    /\ resp = [c \in Callers |-> NoResponse]
    /\ started = 0
    /\ cfe = NoCheck
    /\ tasks = NoTasks
    /\ LoggedOut

FlagNext ==
    \/ \E c \in Callers : DT_Begin(c, FlagRequests, MaxConcurrent)
    \/ \E c \in Callers : DT_Register(c, {1})
    \/ \E c \in Callers : DT_SetDownloading(c)
    \/ \E c \in Callers : DT_Start(c)
    \/ \E c \in Callers : DT_NoBackfill(c)
    \/ \E c \in Callers : DT_PrecheckMiss(c)
    \/ \E c \in Callers : DT_PrecheckHit(c)
    \/ \E c \in Callers : DT_Download(c, {"/out/T - A.flac"})
    \/ \E c \in Callers : DT_Fail(c)
    \/ \E c \in Callers : DT_NoCleanup(c)
    \/ \E c \in Callers : DT_Remove(c)
    \/ \E c \in Callers : DT_RemoveFailed(c)
    \/ \E c \in Callers : DT_ProviderExists(c)
    \/ \E c \in Callers : DT_Completed(c)
    \/ \E c \in Callers : DT_Return(c)

SpecFlag == InitFlag /\ [][FlagNext]_vars


\* SpecClock: the same concurrent downloads, the clock not always having
\* moved on between two readings (time.Now() is as fine as the platform's
\* wall clock and is read by goroutines running in parallel)
ClockNext ==
    \/ \E c \in Callers : DT_Begin(c, FlagRequests, MaxConcurrent)
    \/ \E c \in Callers : DT_Register(c, {0, 1})
    \/ \E c \in Callers : DT_SetDownloading(c)
    \/ \E c \in Callers : DT_Start(c)
    \/ \E c \in Callers : DT_NoBackfill(c)
    \/ \E c \in Callers : DT_PrecheckMiss(c)
    \/ \E c \in Callers : DT_PrecheckHit(c)
    \/ \E c \in Callers : DT_Download(c, {"/out/T - A.flac"})
    \/ \E c \in Callers : DT_Fail(c)
    \/ \E c \in Callers : DT_NoCleanup(c)
    \/ \E c \in Callers : DT_Remove(c)
    \/ \E c \in Callers : DT_RemoveFailed(c)
    \/ \E c \in Callers : DT_ProviderExists(c)
    \/ \E c \in Callers : DT_Completed(c)
    \/ \E c \in Callers : DT_Return(c)

SpecClock == InitFlag /\ [][ClockNext]_vars

-----------------------------------------------------------------------------
(* SpecCheck: one CheckFilesExistence call, its goroutines finishing in    *)
(* any order.                                                              *)

CheckNext ==
    \/ CFE_Empty
    \/ CFE_Start(TrackLists)
    \/ \E idx \in 0..(MaxTracks - 1) : CFE_WorkerNoName(idx)
    \/ \E idx \in 0..(MaxTracks - 1) : CFE_WorkerStat(idx)
    \/ CFE_Receive
    \/ CFE_Return

\* the output directory holds any of the lossless file of the named track
\* and a file where a track without artist name would be looked for
InitCheck ==
    /\ queue = EmptyQueue
    /\ isDownloading = FALSE
    /\ \E size \in {NoFile, MinFileSize, FullSize} : \E other \in {NoFile, FullSize} :
        fs = [p \in Paths \cup {NamelessPath} |->
                IF p = "/out/T - A.flac" THEN size
                ELSE IF p = NamelessPath THEN other ELSE NoFile]
    /\ clock = 0
    /\ call = [c \in Slots |-> Idle]
    /\ resp = [c \in Slots |-> NoResponse]
    /\ started = 0
    /\ cfe = NoCheck
    /\ tasks = NoTasks
    /\ LoggedOut

SpecCheck == InitCheck /\ [][CheckNext]_vars

\* the Go scheduler runs every goroutine that can take a step: a worker that
\* has not yet sent, and the collecting loop when a result is waiting
SpecCheckFair == SpecCheck /\ WF_vars(CheckNext)

-----------------------------------------------------------------------------
(* SpecNumber: a track of a playlist is looked for by CheckFilesExistence  *)
(* and downloaded by DownloadTrack, under the same naming settings: with   *)
(* or without the number in the file name, its playlist position and its   *)
(* album track number known or not, the album number preferred or not.     *)

\* tidal downloads by URL of the track "T" of "A"
NumberRequests ==
    {[Request("", "tidal", "T", "A", "", "https://svc/t/1", "auto", FALSE, "", FALSE)
        EXCEPT !.TrackNumber = include, !.Position = position,
               !.SpotifyTrackNumber = number, !.UseAlbumTrackNumber = use] :
        include \in BOOLEAN, position \in {0, 3}, number \in {0, 7}, use \in BOOLEAN}

\* the CheckFileExistenceRequest of the track a DownloadRequest asks for
TrackOf(req) ==
    [SpotifyID |-> req.SpotifyID, TrackName |-> req.TrackName,
     ArtistName |-> req.ArtistName, FilenameFormat |-> req.FilenameFormat,
     AudioFormat |-> req.AudioFormat, TrackNumber |-> req.SpotifyTrackNumber,
     Position |-> req.Position, UseAlbumTrackNumber |-> req.UseAlbumTrackNumber,
     IncludeTrackNumber |-> req.TrackNumber]

NumberLists == {[k \in {0} |-> TrackOf(r)] : r \in NumberRequests}

\* the output directory is empty or holds the track, under its plain name or
\* under one of its numbers
InitNumber ==
    /\ queue = EmptyQueue
    /\ isDownloading = FALSE
    /\ \E there \in {""} \cup {"/out/T - A.flac"} \cup NumberedPaths :
        fs = [p \in Paths \cup NumberedPaths |-> IF p = there THEN FullSize ELSE NoFile]
    /\ clock = 0
    /\ call = [c \in Slots |-> Idle]
    /\ resp = [c \in Slots |-> NoResponse]
    /\ started = 0
    /\ cfe = NoCheck
    /\ tasks = NoTasks
    /\ LoggedOut

NumberNext ==
    \/ \E c \in Slots : DT_Begin(c, NumberRequests, MaxCalls)
    \/ \E c \in Slots : DT_Register(c, {1})
    \/ \E c \in Slots : DT_SetDownloading(c)
    \/ \E c \in Slots : DT_Start(c)
    \/ \E c \in Slots : DT_NoBackfill(c)
    \/ \E c \in Slots : DT_PrecheckMiss(c)
    \/ \E c \in Slots : DT_PrecheckHit(c)
    \/ \E c \in Slots : DT_Download(c, {"/out/T - A.flac"} \cup NumberedPaths)
    \/ \E c \in Slots : DT_Fail(c)
    \/ \E c \in Slots : DT_NoCleanup(c)
    \/ \E c \in Slots : DT_Remove(c)
    \/ \E c \in Slots : DT_RemoveFailed(c)
    \/ \E c \in Slots : DT_ProviderExists(c)
    \/ \E c \in Slots : DT_Completed(c)
    \/ \E c \in Slots : DT_Return(c)
    \/ CFE_Start(NumberLists)
    \/ CFE_WorkerStat(0)
    \/ CFE_Receive
    \/ CFE_Return

SpecNumber == InitNumber /\ [][NumberNext]_vars

-----------------------------------------------------------------------------
(* Properties.  A property of DownloadTrack is stated over what a call     *)
(* returned (resp[c].r), the request it was given (resp[c].req), the files *)
(* as they were when it began (resp[c].fs0) and the events it issued       *)
(* (resp[c].log).                                                          *)

Issued(log, event) == \E i \in 1..Len(log) : log[i] = event

\* the positions of the log at which a provider downloader was called
ProviderCalls(log) == {i \in 1..Len(log) : HasPrefix(log[i], "provider:")}

\* the expected output path of the request slot c was called with
ExpectedPathOf(c) == ExpectedPath(Normalize(resp[c].req))

\* the call of slot c returned the file in place, skipped the item and called
\* no downloader
SkippedExisting(c) ==
    /\ resp[c].r.Success
    /\ resp[c].r.AlreadyExists
    /\ resp[c].r.File = ExpectedPathOf(c)
    /\ resp[c].r.err = Nil
    /\ Issued(resp[c].log, "SkipDownloadItem")
    /\ ProviderCalls(resp[c].log) = {}

\* C1 as stated: with track and artist name given and a file of 102400 bytes
\* or more at the expected path, DownloadTrack returns Success, AlreadyExists
\* and that path, skips the item and calls no downloader.
C1_AtLeast100KiB ==
    \A c \in Slots :
        (/\ resp[c].done
         /\ HasNames(resp[c].req)
         /\ resp[c].fs0[ExpectedPathOf(c)] >= MinFileSize)
        => SkippedExisting(c)

\* C1: with track and artist name given, a request that is not a qobuz request
\* lacking both ISRC and Spotify ID, and a file of more than 102400 bytes at
\* the expected path, DownloadTrack returns Success, AlreadyExists and that
\* path with the item id, issues SkipDownloadItem for the item and calls no
\* downloader; so does every repeated call, the file being left as it was.
C1_ExistingFileSkipped ==
    \A c \in Slots :
        (/\ resp[c].done
         /\ HasNames(resp[c].req)
         /\ ~(resp[c].req.Service = "qobuz" /\ resp[c].req.ISRC = ""
                /\ resp[c].req.SpotifyID = "")
         /\ resp[c].fs0[ExpectedPathOf(c)] > MinFileSize)
        => /\ SkippedExisting(c)
           /\ resp[c].r.ItemID = resp[c].itemID
           /\ resp[c].itemID # ""
           /\ fs = resp[c].fs0

\* the second of two calls has found the file in place again: both items are
\* on the queue as skipped, with the path
C1_Witness ==
    \E c \in Slots :
        /\ resp[c].done
        /\ started = 2
        /\ HasNames(resp[c].req)
        /\ resp[c].fs0[ExpectedPathOf(c)] > MinFileSize
        /\ SkippedExisting(c)
        /\ Cardinality(DOMAIN queue) = 2
        /\ \A id \in DOMAIN queue :
            queue[id].status = "skipped" /\ queue[id].filePath = ExpectedPathOf(c)

\* the call of slot c had its downloader fail after writing a file
FailedAfterWriting(c) ==
    /\ resp[c].done
    /\ ProviderCalls(resp[c].log) # {}
    /\ resp[c].r.err # Nil
    /\ resp[c].wrote # ""

\* C2 as stated: when the downloader returned an error after writing a partial
\* file, that file does not exist when DownloadTrack returns.
C2_PartialFileGone ==
    \A c \in Slots : FailedAfterWriting(c) => fs[resp[c].wrote] = NoFile

\* C2: when the downloader returned an error together with the path of the
\* partial file it wrote (a non-empty path without the EXISTS: prefix),
\* DownloadTrack looks the file up and removes it: the file does not exist
\* when DownloadTrack returns, unless the removal itself failed.
C2_ReturnedPartialFileRemoved ==
    \A c \in Slots :
        (/\ FailedAfterWriting(c)
         /\ resp[c].filename = resp[c].wrote)
        => \/ Issued(resp[c].log, "fs:Remove") /\ fs[resp[c].wrote] = NoFile
           \/ Issued(resp[c].log, "fs:Remove failed")

\* a failed download whose partial file was returned and has been removed
C2_Witness ==
    \E c \in Slots :
        /\ FailedAfterWriting(c)
        /\ resp[c].filename = resp[c].wrote
        /\ Issued(resp[c].log, "fs:Remove")
        /\ fs[resp[c].wrote] = NoFile
        /\ ~resp[c].r.Success

\* C3: an item that is Completed, Skipped, Failed or Cancelled keeps that
\* state in every step, whatever DownloadTrack (called with the item's id),
\* MarkDownloadItemFailed, SkipDownloadItem or CancelAllQueuedItems does next.
C3_TerminalIsFinal ==
    [][\A id \in DOMAIN queue :
        (queue[id].status \in Terminal /\ id \in DOMAIN queue')
        => queue'[id].status = queue[id].status]_vars

\* DownloadTrack, called with the id of a cancelled item, has run through
\* StartDownloadItem and CompleteDownloadItem, and the item is still Cancelled
C3_Witness ==
    \E c \in Slots :
        /\ call[c].pc = "return"
        /\ call[c].orig.ItemID # ""
        /\ call[c].itemID \in DOMAIN queue
        /\ queue[call[c].itemID].status = "cancelled"
        /\ Issued(call[c].log, "StartDownloadItem")
        /\ Issued(call[c].log, "CompleteDownloadItem")

\* C4: CheckFilesExistence returns as many results as it was given tracks,
\* the result at each index being the one computed for the track at that
\* index (its SpotifyID, track name and artist name), in whatever order the
\* goroutines finished; without tracks it returns the empty list.
C4_ResultsInInputOrder ==
    cfe.pc = "done"
    => /\ DOMAIN cfe.out = DOMAIN cfe.tracks
       /\ \A k \in DOMAIN cfe.tracks :
            /\ cfe.out[k] = CheckOne(cfe.outputDir, cfe.tracks[k], fs)
            /\ cfe.out[k].SpotifyID = cfe.tracks[k].SpotifyID
            /\ cfe.out[k].TrackName = cfe.tracks[k].TrackName
            /\ cfe.out[k].ArtistName = cfe.tracks[k].ArtistName
       /\ cfe.tracks = <<>> => cfe.out = <<>>

\* three different tracks were checked, the results came in in the order
\* last, first, second, and the list returned is in input order, the file of
\* the first track found
C4_Witness ==
    /\ cfe.pc = "done"
    /\ DOMAIN cfe.tracks = 0..2
    /\ cfe.tracks[0].SpotifyID = "sp1"
    /\ cfe.tracks[1].SpotifyID = "sp2"
    /\ cfe.tracks[2].SpotifyID = "sp3"
    /\ cfe.received = <<2, 0, 1>>
    /\ \A k \in 0..2 : cfe.out[k].SpotifyID = cfe.tracks[k].SpotifyID
    /\ cfe.out[0].Exists /\ cfe.out[0].FilePath = "/out/T - A.flac"
    /\ ~cfe.out[1].Exists /\ ~cfe.out[2].Exists

\* the request of slot c's call is a qobuz request with neither ISRC nor Spotify ID
QobuzWithoutID(req) == req.Service = "qobuz" /\ req.ISRC = "" /\ req.SpotifyID = ""

\* C5: a qobuz request with empty ISRC and empty Spotify ID is answered with
\* the validation error in the very step it is taken up: no item registered
\* or started, the flag, the files and the clock as they were, no event issued.
C5_QobuzRejectedFirst ==
    [][\A c \in Slots :
        (resp'[c] # resp[c] /\ resp'[c].done /\ QobuzWithoutID(resp'[c].req))
        => /\ call[c].pc = "idle" /\ call'[c].pc = "idle"
           /\ UNCHANGED <<queue, isDownloading, fs, clock>>
           /\ ~resp'[c].r.Success
           /\ resp'[c].r.Error = "Spotify ID is required for Qobuz"
           /\ resp'[c].r.err # Nil
           /\ resp'[c].log = <<>>
           /\ resp'[c].itemID = ""]_vars

\* the rejected request named an item of the queue: the item is still Queued
C5_Witness ==
    \E c \in Slots :
        /\ resp[c].done
        /\ QobuzWithoutID(resp[c].req)
        /\ ~resp[c].r.Success
        /\ resp[c].log = <<>>
        /\ resp[c].req.ItemID \in DOMAIN queue
        /\ queue[resp[c].req.ItemID].status = "queued"
        /\ ~isDownloading

KnownServices == {"amazon", "tidal", "qobuz"}

\* C6 as stated: a request with a service other than amazon, tidal or qobuz
\* fails with the unknown-service error and never succeeds, without an item
\* registered or started, without metadata request and without file lookup.
C6_UnknownServiceFailsFirst ==
    \A c \in Slots :
        (/\ resp[c].done
         /\ resp[c].req.Service # ""
         /\ resp[c].req.Service \notin KnownServices)
        => /\ ~resp[c].r.Success
           /\ resp[c].r.Error = "Unknown service: " \o resp[c].req.Service
           /\ ~Issued(resp[c].log, "AddToQueue")
           /\ ~Issued(resp[c].log, "StartDownloadItem")
           /\ ~Issued(resp[c].log, "net:GetFilteredSpotifyData")
           /\ ~Issued(resp[c].log, "fs:Stat")

\* C7 as stated: when DownloadTrack returns a failure after registering or
\* starting its item, the item is Failed with the error text.
C7_FailureMarksItemFailed ==
    \A c \in Slots :
        (resp[c].done /\ ~resp[c].r.Success /\ Issued(resp[c].log, "StartDownloadItem"))
        => /\ resp[c].itemID \in DOMAIN queue
           /\ queue[resp[c].itemID].status = "failed"
           /\ queue[resp[c].itemID].errorMessage = resp[c].r.Error

\* C8: a result is a fresh download (Success, not AlreadyExists), an existing
\* file (Success, AlreadyExists) or a failure (no Success, Error not empty);
\* Success goes with a nil Go error and only with it; a failure never has
\* AlreadyExists.
C8_ThreeClasses ==
    \A c \in Slots :
        resp[c].done
        => /\ resp[c].r.Success \/ resp[c].r.Error # ""
           /\ resp[c].r.Success <=> resp[c].r.err = Nil
           /\ ~resp[c].r.Success => ~resp[c].r.AlreadyExists

\* a downloader failed and the call returned the failure
C8_Witness ==
    \E c \in Slots :
        /\ resp[c].done
        /\ ProviderCalls(resp[c].log) # {}
        /\ ~resp[c].r.Success
        /\ resp[c].r.Error = "Download failed: timeout"
        /\ resp[c].r.err = "timeout"
        /\ ~resp[c].r.AlreadyExists

\* C9 as stated: a response returned after an item was registered or reused
\* for the request carries the item's id.
C9_ResponseCarriesItemID ==
    \A c \in Slots :
        (resp[c].done /\ resp[c].itemID # "") => resp[c].r.ItemID = resp[c].itemID

\* C10: a call calls at most one downloader, one of the provider the
\* normalized service names; a failed download is not followed by another.
C10_OneProvider ==
    \A c \in Slots :
        resp[c].done
        => /\ Cardinality(ProviderCalls(resp[c].log)) <= 1
           /\ \A i \in ProviderCalls(resp[c].log) :
                HasPrefix(resp[c].log[i],
                          "provider:" \o Normalize(resp[c].req).Service \o ".")

\* a qobuz download has failed and the call has returned that failure
C10_Witness ==
    \E c \in Slots :
        /\ resp[c].done
        /\ resp[c].req.Service = "qobuz"
        /\ Issued(resp[c].log, "provider:qobuz.DownloadByISRC")
        /\ Issued(resp[c].log, "FailDownloadItem")
        /\ Cardinality(ProviderCalls(resp[c].log)) = 1
        /\ resp[c].r.err # Nil

\* the descriptive fields the backfill may fill, with the fetched field of each
BackfillFields ==
    {<<"Copyright", "Copyright">>, <<"Publisher", "Publisher">>,
     <<"SpotifyTotalDiscs", "TotalDiscs">>, <<"SpotifyTotalTracks", "TotalTracks">>,
     <<"SpotifyTrackNumber", "TrackNumber">>, <<"ReleaseDate", "ReleaseDate">>}

NumberFields == {"SpotifyTotalDiscs", "SpotifyTotalTracks", "SpotifyTrackNumber"}

\* the value of a descriptive field the caller left out, or of a fetched
\* field the data source does not know: zero for a number, else empty
Absent(p, v) == IF p[1] \in NumberFields THEN v <= 0 ELSE v = ""

\* C11: the request the call goes on with differs from the caller's (with its
\* defaults) in the six descriptive fields at most; such a field differs only
\* where the caller left it empty or zero and the fetch gave a non-empty or
\* positive value, which it then holds; a fetch that failed changes nothing,
\* and the call goes on to the existence check and, where it comes to call
\* the downloader, fails only with the downloader's error.
C11_BackfillFillsOnlyAbsent ==
    \A c \in Slots :
        resp[c].done /\ resp[c].itemID # ""
        => LET given == Normalize(resp[c].req)
               final == resp[c].final
               t == resp[c].fetched.track
           IN /\ \A f \in DOMAIN given :
                    (\A p \in BackfillFields : p[1] # f) => final[f] = given[f]
              /\ \A p \in BackfillFields :
                    final[p[1]] # given[p[1]]
                    => /\ Absent(p, given[p[1]])
                       /\ resp[c].fetched.ok
                       /\ ~Absent(p, t[p[2]])
                       /\ final[p[1]] = t[p[2]]
              /\ ~resp[c].fetched.ok
                    => /\ final = given
                       /\ HasNames(given) => Issued(resp[c].log, "fs:Stat")
                       /\ (resp[c].r.err # Nil /\ ProviderCalls(resp[c].log) # {})
                            => resp[c].r.err \in ProviderErrors

\* the caller gave the copyright and not the publisher, the fetch knew both:
\* the copyright is the caller's, the publisher the fetched one
C11_Witness ==
    \E c \in Slots :
        /\ resp[c].done
        /\ resp[c].fetched.ok
        /\ resp[c].fetched.track.Copyright = "(c) spotify"
        /\ resp[c].req.Copyright = "(c) caller" /\ resp[c].final.Copyright = "(c) caller"
        /\ resp[c].req.Publisher = "" /\ resp[c].final.Publisher = "spotify label"
        /\ resp[c].req.SpotifyTotalDiscs = 0 /\ resp[c].final.SpotifyTotalDiscs = 2
        /\ resp[c].req.ReleaseDate = "1999-01-01" /\ resp[c].final.ReleaseDate = "1999-01-01"

\* how often the event occurs in the log
Count(log, event) == Cardinality({i \in 1..Len(log) : log[i] = event})

\* the queue differs from before in the item id at most
OnlyItemChanged(id) ==
    /\ DOMAIN queue' = DOMAIN queue
    /\ \A x \in DOMAIN queue : x # id => queue'[x] = queue[x]

FreshSuccess(rec) ==
    /\ ProviderCalls(rec.log) # {}
    /\ rec.r.err = Nil
    /\ ~HasPrefix(rec.filename, "EXISTS:")

\* event a comes before event b in the log
Before(log, a, b) ==
    \E i \in 1..Len(log) : \E j \in 1..Len(log) : i < j /\ log[i] = a /\ log[j] = b

ProviderFoundExisting(rec) ==
    /\ ProviderCalls(rec.log) # {}
    /\ rec.r.err = Nil
    /\ HasPrefix(rec.filename, "EXISTS:")

Running(c) == call[c].pc \notin {"idle", "register", "setdownloading"}

\* C15 as stated: the flag is true whenever some call is past registration
\* (here: past its SetDownloading(true)) and has not returned yet.
C15_FlagWhileAnyCallRuns ==
    (\E c \in DOMAIN call : Running(c)) => isDownloading

\* C16: for a track without name or without artist name os.Stat is never
\* called, and the result returned for it has Exists false and no FilePath,
\* also with a file lying where the track would be looked for.
C16_NamelessNotLookedFor ==
    \A k \in DOMAIN cfe.tracks :
        (cfe.tracks[k].TrackName = "" \/ cfe.tracks[k].ArtistName = "")
        => /\ k \notin cfe.statted
           /\ cfe.pc = "done"
                => /\ ~cfe.out[k].Exists
                   /\ cfe.out[k].FilePath = ""
                   /\ cfe.out[k].SpotifyID = cfe.tracks[k].SpotifyID

\* a track without artist name was checked next to a named one, a file lying
\* at "/out/T - .flac": the named track was looked for and found, the other
\* was not looked for
C16_Witness ==
    /\ cfe.pc = "done"
    /\ DOMAIN cfe.tracks = 0..1
    /\ cfe.tracks[0].ArtistName = "" /\ cfe.tracks[1].ArtistName = "A"
    /\ fs[NamelessPath] = FullSize /\ fs["/out/T - A.flac"] = FullSize
    /\ cfe.statted = {1}
    /\ ~cfe.out[0].Exists /\ cfe.out[0].FilePath = ""
    /\ cfe.out[1].Exists

\* the request asks qobuz for a track without Spotify ID, with an ISRC that
\* is not a valid code
QobuzInvalidISRC(req) ==
    /\ req.Service = "qobuz"
    /\ req.SpotifyID = ""
    /\ ~(Len(req.ISRC) = 12 /\ isValidISRC(req.ISRC))

\* C17 as stated: a qobuz request without Spotify ID whose ISRC is not a
\* valid 12-character code fails with an error message before any queue
\* operation, filesystem access or network call of that call.
C17_InvalidISRCFailsFast ==
    \A c \in Slots :
        (resp[c].done /\ QobuzInvalidISRC(resp[c].req))
        => /\ ~resp[c].r.Success
           /\ resp[c].r.Error # ""
           /\ resp[c].log = <<>>
           /\ resp[c].itemID = ""

\* C18 as stated: a call that issues StartDownloadItem has stat'ed the
\* expected path before, when track and artist name are given, and a call
\* that returns the file the precheck found has not issued StartDownloadItem.
C18_StartAfterPrecheck ==
    \A c \in Slots :
        resp[c].done
        => /\ (Issued(resp[c].log, "StartDownloadItem") /\ HasNames(resp[c].final))
                => Before(resp[c].log, "fs:Stat", "StartDownloadItem")
           /\ SkippedExisting(c) => ~Issued(resp[c].log, "StartDownloadItem")

TerminalTransitions == {"SkipDownloadItem", "FailDownloadItem", "CompleteDownloadItem"}

\* the positions of the log at which the call ended its item
Endings(log) == {i \in 1..Len(log) : log[i] \in TerminalTransitions}

\* at most one start, at most one ending, and the ending after the start
TransitionsOrdered(log) ==
    /\ Count(log, "StartDownloadItem") <= 1
    /\ Cardinality(Endings(log)) <= 1
    /\ \A t \in Endings(log) :
           \E s \in 1..(t - 1) : log[s] = "StartDownloadItem"

\* C19: at every point of a call the transitions it has issued on its item
\* are at most one StartDownloadItem and, after it, at most one of
\* SkipDownloadItem, FailDownloadItem and CompleteDownloadItem; a returned
\* call that got an item has issued StartDownloadItem exactly once.
C19_StartOnceThenOneEnding ==
    \A c \in Slots :
        /\ call[c].pc # "idle" => TransitionsOrdered(call[c].log)
        /\ (resp[c].done /\ resp[c].itemID # "")
             => Count(resp[c].log, "StartDownloadItem") = 1

\* a call whose downloader failed has returned: one start, then
\* FailDownloadItem and no other ending
C19_Witness ==
    \E c \in Slots :
        /\ resp[c].done
        /\ ProviderCalls(resp[c].log) # {}
        /\ Count(resp[c].log, "StartDownloadItem") = 1
        /\ Before(resp[c].log, "StartDownloadItem", "FailDownloadItem")
        /\ Cardinality(Endings(resp[c].log)) = 1
        /\ queue[resp[c].itemID].status = "failed"

\* the number the naming settings of the request ask for: the album track
\* number when it is preferred and known, the playlist position otherwise
AlbumOrPosition(req) ==
    IF req.UseAlbumTrackNumber /\ req.SpotifyTrackNumber > 0
    THEN req.SpotifyTrackNumber ELSE req.Position

\* C20 as stated: when DownloadTrack has prechecked a track and
\* CheckFilesExistence has looked for the same track under the same naming
\* settings, both handed the filename builder the album track number when it
\* is preferred and positive and the position otherwise, and both looked at
\* the same path.
C20_SameNumberSamePath ==
    \A c \in Slots :
        (/\ resp[c].done
         /\ Issued(resp[c].log, "fs:Stat")
         /\ cfe.pc = "done"
         /\ DOMAIN cfe.tracks = {0}
         /\ cfe.tracks[0] = TrackOf(resp[c].req)
         /\ 0 \in cfe.statted)
        => /\ PrecheckTrackNumber(resp[c].final) = AlbumOrPosition(resp[c].final)
           /\ CheckTrackNumber(cfe.tracks[0]) = AlbumOrPosition(resp[c].final)
           /\ ExpectedPath(resp[c].final) = CheckPath(cfe.outputDir, cfe.tracks[0])

\* C21 as stated: a call whose downloader wrote a fresh file starts the
\* lyrics task when EmbedLyrics is set and the file is a .flac file, and no
\* call starts it otherwise.
C21_LyricsWhenRequested ==
    \A c \in Slots :
        resp[c].done
        => (Issued(resp[c].log, "go:lyrics")
              <=> /\ FreshSuccess(resp[c])
                  /\ resp[c].req.EmbedLyrics
                  /\ HasSuffix(resp[c].r.File, ".flac"))

\* C21: the lyrics task is started once by a call whose downloader wrote a
\* fresh .flac file for a request with EmbedLyrics and a Spotify ID, and is
\* not started by any other call: not without EmbedLyrics, not without
\* Spotify ID, not for another container, not for a file that was there.
C21_LyricsWhenRequestedWithID ==
    \A c \in Slots :
        resp[c].done
        => Count(resp[c].log, "go:lyrics") =
              IF /\ FreshSuccess(resp[c])
                 /\ resp[c].req.EmbedLyrics
                 /\ resp[c].req.SpotifyID # ""
                 /\ HasSuffix(resp[c].r.File, ".flac")
              THEN 1 ELSE 0

\* a download by Spotify ID with EmbedLyrics wrote a fresh lossless file and
\* the lyrics task was started before the item was completed
C21_Witness ==
    \E c \in Slots :
        /\ resp[c].done
        /\ resp[c].req.EmbedLyrics /\ resp[c].req.SpotifyID # ""
        /\ resp[c].r.Success /\ ~resp[c].r.AlreadyExists
        /\ resp[c].r.File = "/out/T - A.flac"
        /\ Before(resp[c].log, "go:lyrics", "CompleteDownloadItem")
        /\ queue[resp[c].itemID].status = "completed"

\* the lookups of the returned call rec, in the order they were made
Lookups(rec) ==
    SelectSeq(rec.log, LAMBDA e : e \in {"net:GetDeezerURLFromSpotify", "net:GetDeezerISRC"})

\* C22: a qobuz call makes no Deezer lookup unless the request has a Spotify
\* ID and no valid ISRC; then it looks up the URL first and the ISRC second,
\* once each.  A call that stopped after the URL lookup returns the error of
\* the URL step, a call that stopped after the ISRC lookup the error of the
\* ISRC step (or that no ISRC was found), both without calling the qobuz
\* downloader; the downloader is called after both lookups, or without any
\* when the request's ISRC is valid.
C22_QobuzResolvesURLThenISRC ==
    \A c \in Slots :
        (resp[c].done /\ resp[c].final.Service = "qobuz")
        => LET rec == resp[c]
               called == ProviderCalls(rec.log) # {}
           IN /\ Lookups(rec) \in {<<>>, <<"net:GetDeezerURLFromSpotify">>,
                                   <<"net:GetDeezerURLFromSpotify", "net:GetDeezerISRC">>}
              /\ Lookups(rec) # <<>> => QobuzNeedsResolve(rec.final)
              /\ Lookups(rec) = <<"net:GetDeezerURLFromSpotify">>
                   => /\ ~called
                      /\ ~rec.r.Success
                      /\ HasPrefix(rec.r.Error, "Failed to get Deezer URL: ")
              /\ (Len(Lookups(rec)) = 2 /\ ~called)
                   => /\ ~rec.r.Success
                      /\ \/ HasPrefix(rec.r.Error, "Failed to get ISRC from Deezer: ")
                         \/ rec.r.Error = "ISRC is required for Qobuz (could not fetch from Deezer)"
              /\ HasPrefix(rec.r.Error, "Failed to get ") => Lookups(rec) # <<>> /\ ~called
              /\ called
                   => /\ \A i \in ProviderCalls(rec.log) : rec.log[i] = "provider:qobuz.DownloadByISRC"
                      /\ QobuzNeedsResolve(rec.final) <=> Len(Lookups(rec)) = 2
                      /\ \A i \in ProviderCalls(rec.log) : \A j \in 1..Len(rec.log) :
                            HasPrefix(rec.log[j], "net:GetDeezer") => j < i

\* the URL lookup of a qobuz request with Spotify ID and an unusable ISRC
\* failed: the call returned that error, having made neither the ISRC lookup
\* nor the download
C22_Witness ==
    \E c \in Slots :
        /\ resp[c].done
        /\ resp[c].req.Service = "qobuz"
        /\ resp[c].req.ISRC = "usrc17607839" /\ resp[c].req.SpotifyID = "sp1"
        /\ resp[c].r.Error = "Failed to get Deezer URL: connection refused"
        /\ Issued(resp[c].log, "net:GetDeezerURLFromSpotify")
        /\ ~Issued(resp[c].log, "net:GetDeezerISRC")
        /\ ProviderCalls(resp[c].log) = {}

\* C23 as stated: two calls in progress that synthesized their item IDs
\* hold different item IDs.
C23_SynthesizedIDsDiffer ==
    \A c \in DOMAIN call : \A d \in DOMAIN call :
        (/\ c # d
         /\ call[c].itemID # "" /\ call[c].orig.ItemID = ""
         /\ call[d].itemID # "" /\ call[d].orig.ItemID = "")
        => call[c].itemID # call[d].itemID

\* C24 as stated: every ExchangeCode sends, with its code, the verifier of
\* the challenge in the URL through which the code was obtained.
C24_VerifierBelongsToURL ==
    spotify.last.op = "ExchangeCode" =>
        \A i \in DOMAIN spotify.last.sent :
            generateCodeChallenge(spotify.last.sent[i].code_verifier)
                = ChallengeOf(spotify.last.sent[i].code)


\* C25 as stated: an ExchangeCode that returns an error leaves the access
\* token, the refresh token and the expiry in memory as they were, and
\* IsAuthenticated with them.
C25_FailedExchangeKeepsTokens ==
    [][(/\ login.pc \in {"exchange", "start"}
        /\ login'.pc \notin {"exchange", "start"}
        /\ login'.code # ""
        /\ spotify'.last.op = "ExchangeCode"
        /\ spotify'.last.err # Nil)
       => /\ TokensOf(client') = TokensOf(client)
          /\ IsAuthenticated(client') = IsAuthenticated(client)]_vars

\* the step in which makeRequest's EnsureValidToken calls RefreshAccessToken
\* and it returns
RefreshStep == spotify.call.pc = "ensure" /\ spotify'.call.refresh # ""

\* the answer is not one that tokens are read from: nothing was sent, or the
\* transport failed, or the status is not 200, or the body is not JSON
NothingParsed(returned) ==
    \/ returned.sent = <<>>
    \/ returned.answer.err # Nil
    \/ returned.answer.status # 200
    \/ returned.answer.text = Malformed

\* C27 as stated: makeRequest sends a request only with a non-empty access
\* token; without a token it returns "not authenticated" and sends nothing;
\* with a token about to expire it sends only after a successful refresh
\* and with the refreshed token; after a failed refresh it sends nothing.
C27_SendsOnlyWithToken ==
    LET c == spotify.call IN
    c.pc \in {"send", "returned"} =>
        /\ \A i \in DOMAIN c.sent : c.sent[i].Authorization # "Bearer "
        /\ c.found.accessToken = "" => c.sent = <<>> /\ c.err = "not authenticated"
        /\ (c.found.accessToken # "" /\ ExpiresSoon(c.found.expiresAt)) =>
              /\ c.refresh \in {"ok", "failed"}
              /\ c.refresh = "failed" => c.sent = <<>>
              /\ \A i \in DOMAIN c.sent :
                    c.sent[i].Authorization = "Bearer " \o spotify.last.answer.body.AccessToken

\* C28: a RefreshAccessToken that fails before a 200 answer is parsed leaves
\* the access token, the refresh token and the expiry as they were; one that
\* parses a 200 answer takes the access token and the expiry from it, and
\* the refresh token only if the answer carries a non-empty one.
C28_RefreshKeepsOrReplaces ==
    [][RefreshStep =>
        LET returned == spotify'.last
            body == returned.answer.body
        IN /\ returned.op = "RefreshAccessToken" /\ returned.before = client
           /\ client.refreshToken = "" => returned.sent = <<>> /\ returned.err # Nil
           /\ NothingParsed(returned) =>
                returned.err # Nil /\ TokensOf(client') = TokensOf(client)
           /\ ~NothingParsed(returned) =>
                /\ client'.accessToken = body.AccessToken
                /\ client'.expiresAt = Now + body.ExpiresIn
                /\ client'.refreshToken = IF body.RefreshToken # "" THEN body.RefreshToken
                                          ELSE client.refreshToken]_vars

\* a refresh has succeeded on an answer without refresh token: the client
\* holds the new access token and the refresh token it had
C28_Witness ==
    /\ spotify.last.op = "RefreshAccessToken" /\ spotify.last.err = Nil
    /\ spotify.last.answer.body.RefreshToken = ""
    /\ spotify.call.refresh = "ok"
    /\ client.accessToken = "access2" /\ spotify.last.before.accessToken = "access1"
    /\ client.refreshToken = "refresh1"

\* line 1053: the capacity of resultsChan
Capacity == Cardinality(DOMAIN cfe.tracks)

\* the indices of the results sitting in the channel
InChannel == {cfe.resultsChan[k].index : k \in DOMAIN cfe.resultsChan}

\* the indices of the results received so far
Received == {cfe.received[k] : k \in DOMAIN cfe.received}

\* every worker has sent nothing yet, or one result that is in the channel
\* or has been received; a worker about to send finds room in the channel
OneResultEach ==
    cfe.pc \in {"collect", "done"} =>
        /\ cfe.running \cup InChannel \cup Received = DOMAIN cfe.tracks
        /\ Cardinality(cfe.running) + Len(cfe.resultsChan) + Len(cfe.received) = Capacity
        /\ cfe.i = Len(cfe.received)
        /\ cfe.running # {} => Len(cfe.resultsChan) < Capacity

\* the call has returned after one result of every worker and no other
ReturnedAfterAll ==
    cfe.pc = "done" =>
        /\ cfe.i = Capacity
        /\ Received = DOMAIN cfe.tracks /\ Len(cfe.received) = Capacity
        /\ cfe.running = {} /\ cfe.resultsChan = <<>>

\* C29: for N tracks every worker sends exactly one result and finds room
\* in the channel for it, every index 0..N-1 is written exactly once, and
\* the call returns, and only after N results.
C29_CollectsEveryResultAndReturns ==
    /\ [](OneResultEach /\ ReturnedAfterAll)
    /\ (cfe.pc = "collect") ~> (cfe.pc = "done")

\* a call for the largest list has returned, its results having arrived in
\* another order than the tracks
C29_Witness ==
    /\ cfe.pc = "done"
    /\ Capacity = MaxTracks
    /\ cfe.received[1] # 0
    /\ DOMAIN cfe.out = 0..(MaxTracks - 1)

\* the items of a sequence of pages, one page after the other
RECURSIVE ItemsOf(_)
ItemsOf(pages) ==
    IF pages = <<>> THEN <<>> ELSE ItemsOf(SubSeq(pages, 1, Len(pages) - 1))
                                   \o pages[Len(pages)].Items

\* the page ends the paging: no link to a next page, or no items
LastPage(page) == page.Next = "" \/ page.Items = <<>>

\* C30: GetAllLikedSongs / GetAllUserPlaylists ask for the pages at the
\* offsets 0, 50, 100, ... in this order, hold the items of the pages got
\* so far in the order of the requests, go on after a page only if it is
\* not a last one, return without error only after a last page, and return
\* with the error and the items got so far when the context is done before
\* a request or a page request fails.
C30_PagesInOrderUntilLast ==
    LET f == library IN
    f.pc # "idle" =>
        /\ \A k \in DOMAIN f.asked : f.asked[k] = (k - 1) * PageLimit
        /\ \A i \in DOMAIN spotify.call.sent :
              spotify.call.owner = "library" =>
                spotify.call.sent[i].endpoint
                    = Endpoint(f.path, PageLimit, f.asked[Len(f.asked)])
        /\ f.items = ItemsOf(f.pages)
        /\ \A k \in DOMAIN f.pages : k < Len(f.pages) => ~LastPage(f.pages[k])
        /\ f.pc = "loop" =>
              /\ Len(f.pages) = Len(f.asked) /\ f.offset = Len(f.asked) * PageLimit
              /\ f.pages # <<>> => ~LastPage(f.pages[Len(f.pages)])
        /\ f.pc = "waiting" => Len(f.pages) = Len(f.asked) - 1 /\ f.offset = f.asked[Len(f.asked)]
        /\ (f.pc = "returned" /\ f.err = Nil) =>
              /\ f.pages # <<>> /\ Len(f.pages) = Len(f.asked)
              /\ LastPage(f.pages[Len(f.pages)])
        /\ (f.pc = "returned" /\ f.err # Nil) =>
              /\ f.pages # <<>> => ~LastPage(f.pages[Len(f.pages)])
              /\ IF f.err = "context canceled" THEN Len(f.pages) = Len(f.asked)
                 ELSE Len(f.pages) = Len(f.asked) - 1

\* three pages were asked for, the third failed, and the items of the first
\* two are returned with the error
C30_Witness ==
    /\ library.pc = "returned"
    /\ library.asked = <<0, 50, 100>>
    /\ library.err = "failed to get playlists: expired"
    /\ library.items = <<1, 2, 51>>

\* C26 as stated: the lyrics goroutine of a fresh download never writes the
\* output file while the size measurement for CompleteDownloadItem or the
\* history goroutine's metadata read of that file is in progress.
C26_LyricsWriteApart ==
    \A c \in DOMAIN tasks :
        tasks[c].lyrics = "writing" =>
            tasks[c].stat # "measuring" /\ tasks[c].history # "reading"

====
